---- MODULE Spec2Model ----
(***************************************************************************)
(* A model of the `cleaned` library (src/cleaned): the ValidationError     *)
(* value, Field.clean, and the construction algorithm of a Cleaned record  *)
(* (Cleaned.__init__) with its cleaned properties and constraints.         *)
(*                                                                         *)
(* Python values are encoded as pairs <<tag, n>>:                          *)
(*   <<"undefined", 0>>  the Undefined singleton (utils.py)                *)
(*   <<"none", 0>>       None                                              *)
(*   <<"int", n>>        the int n                                         *)
(*   <<"numstr", n>>     the str holding the decimal digits of n           *)
(*   <<"str", k>>        a str that holds no number: "a", "b", .. for k =  *)
(*                       0, 1, .. and the empty str for k = -1             *)
(*   <<"inf", 0>>        float('inf')                                      *)
(* A str that the code iterates over (an error message) is a sequence of   *)
(* one-character strings.  A dict is a sequence of <<key, value>> pairs in *)
(* insertion order.                                                        *)
(***************************************************************************)
EXTENDS Integers, Sequences, FiniteSets, TLC

\* ------------------------------------------------------------------------
\* Bounds of the model
\* ------------------------------------------------------------------------
\* largest int offered as a raw input
MaxInt == 3
\* longest message a property body raises self.Error with
MaxMsgLen == 2
\* most record types a TaggedUnion is constructed with
MaxMembers == 3
\* most bases and most attributes of a class statement
MaxBases == 2
MaxAttrs == 2
\* most snapshots taken of an instance, and most changes made to them
MaxSnapshots == 2
MaxChanges == 2

\* ------------------------------------------------------------------------
\* Python values
\* ------------------------------------------------------------------------
_UNDEFINED == <<"undefined", 0>>
None == <<"none", 0>>
PyInt(n) == <<"int", n>>
NumStr(n) == <<"numstr", n>>
Str(k) == <<"str", k>>
BadStr == Str(0)
EmptyStr == Str(-1)

\* the raw values a caller passes for a key
RawValues ==
  {None, BadStr, <<"inf", 0>>} \cup {PyInt(n) : n \in {1, MaxInt}} \cup {NumStr(1)}

\* ------------------------------------------------------------------------
\* dict: a sequence of <<key, value>> pairs, insertion ordered
\* ------------------------------------------------------------------------
DictKeys(d) == {d[n][1] : n \in 1..Len(d)}
DictKeySeq(d) == [n \in 1..Len(d) |-> d[n][1]]
DictHas(d, k) == \E n \in 1..Len(d) : d[n][1] = k
DictGet(d, k) == d[CHOOSE n \in 1..Len(d) : d[n][1] = k][2]
\* d[k] = v : an existing key keeps its position, a new key is appended
DictSet(d, k, v) ==
  IF DictHas(d, k)
  THEN [n \in 1..Len(d) |-> IF d[n][1] = k THEN <<k, v>> ELSE d[n]]
  ELSE Append(d, <<k, v>>)
\* d.pop(k, None)
DictPop(d, k) == SelectSeq(d, LAMBDA p : p[1] # k)
\* d.update(e)
RECURSIVE DictUpdate(_, _)
DictUpdate(d, e) ==
  IF e = <<>> THEN d
  ELSE DictUpdate(DictSet(d, e[1][1], e[1][2]), Tail(e))

RECURSIVE Concat(_)
Concat(ss) == IF ss = <<>> THEN <<>> ELSE ss[1] \o Concat(Tail(ss))

\* ------------------------------------------------------------------------
\* errors.py
\* ------------------------------------------------------------------------
\* ValidationError.Item(message, code = None); the code None is "<None>"
NoCode == "<None>"
Item(message, code) == [message |-> message, code |-> code]

\* The arguments of ValidationError(message, code):
\*   [t |-> "str", s |-> chars]         a str
\*   [t |-> "tuple", s |-> <<m, c>>]    a tuple (message, code), m and c args
\*   [t |-> "list", s |-> <<arg, ..>>]  a list of str / tuple
\*   [t |-> "mapping", s |-> <<<<k, arg>>, ..>>]  a Mapping
\*   [t |-> "none", s |-> <<>>]         None
\*   [t |-> "item", s |-> <<i>>]        the ValidationError.Item i
\*   [t |-> "error", s |-> <<e>>]       the ValidationError e
PyStr(chars) == [t |-> "str", s |-> chars]
PyList(l) == [t |-> "list", s |-> l]
PyMapping(m) == [t |-> "mapping", s |-> m]
PyNone == [t |-> "none", s |-> <<>>]
PyItem(i) == [t |-> "item", s |-> <<i>>]
PyError(e) == [t |-> "error", s |-> <<e>>]

\* what iterating over a Sequence argument yields
Elements(arg) ==
  IF arg.t = "str" THEN [n \in 1..Len(arg.s) |-> PyStr(<<arg.s[n]>>)]
  ELSE arg.s

\* _to_item
_to_item(item) ==
  IF item.t = "str" THEN Item(item.s, NoCode)
  ELSE IF item.t = "tuple"
       THEN Item(item.s[1].s, IF item.s[2].t = "none" THEN NoCode ELSE item.s[2].s)
       ELSE IF item.t = "item" THEN item.s[1]
       \* the object None where an Item is expected: what it got is returned
       ELSE [message |-> <<>>, code |-> "<not an Item>"]

\* _to_items
_to_items(items) ==
  \* isinstance(items, Sequence): str, list and tuple are Sequences
  IF items.t \in {"str", "list", "tuple"}
  THEN [n \in 1..Len(Elements(items)) |-> _to_item(Elements(items)[n])]
  ELSE <<_to_item(items)>>

RECURSIVE ValidationError(_, _)
RECURSIVE _to_nested(_)

\* a bug: the entries that already are ValidationErrors are dropped
_to_nested_DropErrors(data) ==
  LET kept == SelectSeq(data.s, LAMBDA p : p[2].t # "error")
  IN  [n \in 1..Len(kept) |-> <<kept[n][1], ValidationError(kept[n][2], PyNone)>>]

\* _to_nested
_to_nested(data) ==
  [n \in 1..Len(data.s) |-> <<data.s[n][1], ValidationError(data.s[n][2], PyNone)>>]

\* ValidationError.__init__(message, code = None)
ValidationError(message, code) ==
  IF code.t = "str"
  THEN [items |-> <<Item(message.s, code.s)>>, nested |-> <<>>]
  ELSE IF message.t = "error"
  THEN [items |-> message.s[1].items, nested |-> message.s[1].nested]
  ELSE IF message.t = "mapping"
       THEN [items |-> <<>>, nested |-> _to_nested(message)]
       ELSE [items |-> _to_items(message),
             nested |-> _to_nested(IF code.t = "none" THEN PyMapping(<<>>) ELSE code)]

\* ValidationError._flatten_items
RECURSIVE _flatten_items(_)
\* a bug: the nested entries come before the items of the level
_flatten_items_NestedFirst(e) ==
  Concat([n \in 1..Len(e.nested) |-> _flatten_items(e.nested[n][2])]) \o e.items

_flatten_items(e) ==
  e.items \o Concat([n \in 1..Len(e.nested) |-> _flatten_items(e.nested[n][2])])

\* ValidationError.to_flat_codes
to_flat_codes(e) ==
  LET its == SelectSeq(_flatten_items(e), LAMBDA i : i.code # NoCode)
  IN  [n \in 1..Len(its) |-> its[n].code]

NoError == [items |-> <<>>, nested |-> <<>>]
\* a str the code never iterates over (a message passed with a str code)
Text(s) == <<s>>

\* ErrorCode
required == "required"
conversion == "conversion"
lt == "lt"
lte == "lte"
gt == "gt"
gte == "gte"
one_of == "one_of"

\* ------------------------------------------------------------------------
\* base.py, fields.py: Field
\* ------------------------------------------------------------------------
\* Field._default: Undefined, a value, or a zero-argument callable that
\* returns v
NoDefault == [kind |-> "undefined", v |-> _UNDEFINED]
StaticDefault(v) == [kind |-> "value", v |-> v]
ProducerDefault(v) == [kind |-> "callable", v |-> v]

\* IntField.__init__(lt, lte, gt, gte, one_of); a bound is None or an int,
\* one_of is <<>> (None) or <<S>>
IntFieldOf(b_lt, b_lte, b_gt, b_gte, s_one_of) ==
  [cls |-> "IntField", lt |-> b_lt, lte |-> b_lte, gt |-> b_gt, gte |-> b_gte,
   one_of |-> s_one_of, field |-> <<>>, tags |-> <<>>,
   _default |-> NoDefault, _label |-> "", _desc |-> ""]
IntField == IntFieldOf(None, None, None, None, <<>>)

\* OptionalField.__init__
OptionalField(field) ==
  [cls |-> "OptionalField", lt |-> None, lte |-> None, gt |-> None, gte |-> None,
   one_of |-> <<>>, field |-> <<field>>, tags |-> <<>>,
   _default |-> NoDefault, _label |-> "", _desc |-> ""]

\* TagField.__init__(*tags), the tags being distinct non-empty strs
TagField(tags) ==
  [cls |-> "TagField", lt |-> None, lte |-> None, gt |-> None, gte |-> None,
   one_of |-> <<>>, field |-> <<>>, tags |-> tags,
   _default |-> NoDefault, _label |-> "", _desc |-> ""]

\* Field.default
default(field, d) == [field EXCEPT !._default = d]

\* Field.has_default
has_default(field) == field._default.kind # "undefined"

\* Field.opt
opt(field) ==
  \* OptionalField(self).describe(self._label, self._desc)
  LET o == [OptionalField(field) EXCEPT !._label = field._label,
                                        !._desc = field._desc]
  IN  IF field._default.kind # "undefined" THEN default(o, field._default) ELSE o

\* a bug: every exception of convert is expected
expected_exceptions_for_convert_All == {"ValueError", "TypeError", "OverflowError"}

\* Field.expected_exceptions_for_convert
expected_exceptions_for_convert == {"ValueError", "TypeError"}

\* Field.raise_required_error, raise_conversion_error, raise_validation_error
raise_required_error(default_message, code) ==
  ValidationError(PyStr(default_message), PyStr(code))
raise_conversion_error(default_message, code) ==
  ValidationError(PyStr(default_message), PyStr(code))
raise_validation_error(default_message, code) ==
  ValidationError(PyStr(default_message), PyStr(code))

\* value > bound and its like raise TypeError when the bound is not a number
Unorderable(value, bound) == bound # None /\ bound[1] # "int"

\* _validate_comparable: the first violated bound raises
_validate_comparable(value, b_lt, b_lte, b_gt, b_gte) ==
  IF Unorderable(value, b_lt)
  THEN [exc |-> "TypeError", error |-> NoError]
  ELSE IF b_lt # None /\ value[2] >= b_lt[2]
  THEN [exc |-> "ValidationError",
        error |-> raise_validation_error(Text("The value must be less than"), lt)]
  ELSE IF Unorderable(value, b_lte)
  THEN [exc |-> "TypeError", error |-> NoError]
  ELSE IF b_lte # None /\ value[2] > b_lte[2]
  THEN [exc |-> "ValidationError",
        error |-> raise_validation_error(Text("The value must be less than or equal to"), lte)]
  ELSE IF Unorderable(value, b_gt)
  THEN [exc |-> "TypeError", error |-> NoError]
  ELSE IF b_gt # None /\ value[2] <= b_gt[2]
  THEN [exc |-> "ValidationError",
        error |-> raise_validation_error(Text("The value must be greater than"), gt)]
  ELSE IF Unorderable(value, b_gte)
  THEN [exc |-> "TypeError", error |-> NoError]
  ELSE IF b_gte # None /\ value[2] < b_gte[2]
  THEN [exc |-> "ValidationError",
        error |-> raise_validation_error(Text("The value must be greater than or equal to"), gte)]
  ELSE [exc |-> "", error |-> NoError]

\* _validate_one_of
_validate_one_of(value, s_one_of) ==
  IF s_one_of # <<>> /\ value[2] \notin s_one_of[1]
  THEN [exc |-> "ValidationError",
        error |-> raise_validation_error(Text("The value must be one of"), one_of)]
  ELSE [exc |-> "", error |-> NoError]

\* a call of a method of a field, as recorded in the call log
Called(op, field, arg) == <<op, field.cls, arg>>

\* a bug: None is handed to the wrapped field
convert_is_None_Never(value) == FALSE

\* OptionalField.convert: `if value is None`
convert_is_None(value) == value = None

\* IntField.convert / OptionalField.convert / TagField.convert
RECURSIVE convert(_, _)
convert(field, value) ==
  IF field.cls = "OptionalField"
  THEN IF convert_is_None(value)
       THEN [exc |-> "", v |-> None, calls |-> <<Called("convert", field, value)>>]
       ELSE LET r == convert(field.field[1], value)
            IN  [r EXCEPT !.calls = <<Called("convert", field, value)>> \o @]
  ELSE LET r == IF field.cls = "TagField"
                 \* TagField.convert: a value that is no tag raises
                 THEN IF \E n \in 1..Len(field.tags) : field.tags[n] = value
                      THEN [exc |-> "", v |-> value]
                      ELSE [exc |-> "TypeError", v |-> value]
                 \* IntField.convert: int(value)
                 ELSE CASE value[1] = "int" -> [exc |-> "", v |-> value]
                        [] value[1] = "numstr" -> [exc |-> "", v |-> PyInt(value[2])]
                        [] value[1] = "str" -> [exc |-> "ValueError", v |-> value]
                        [] value[1] = "inf" -> [exc |-> "OverflowError", v |-> value]
                        [] OTHER -> [exc |-> "TypeError", v |-> value]
       IN  [exc |-> r.exc, v |-> r.v, calls |-> <<Called("convert", field, value)>>]

\* IntField.validate / OptionalField.validate / TagField.validate
RECURSIVE validate(_, _)
validate(field, value) ==
  IF field.cls = "OptionalField"
  THEN IF value # None
       THEN LET r == validate(field.field[1], value)
            IN  [r EXCEPT !.calls = <<Called("validate", field, value)>> \o @]
       ELSE [exc |-> "", error |-> NoError,
             calls |-> <<Called("validate", field, value)>>]
  ELSE LET r == IF field.cls = "TagField" THEN [exc |-> "", error |-> NoError]
                 \* _validate(value, self, _COMPARABLE, _ONE_OF)
                 ELSE LET c == _validate_comparable(value, field.lt, field.lte,
                                                    field.gt, field.gte)
                      IN  IF c.exc # "" THEN c
                          ELSE _validate_one_of(value, field.one_of)
       IN  [exc |-> r.exc, error |-> r.error,
            calls |-> <<Called("validate", field, value)>>]

\* a bug: an OptionalField without default cleans Undefined to None
clean_undefined_Omissible(field) ==
  IF field._default.kind = "undefined"
  THEN IF field.cls = "OptionalField"
       THEN [exc |-> "", value |-> None, error |-> NoError, calls |-> <<>>]
       ELSE [exc |-> "ValidationError", value |-> _UNDEFINED,
             error |-> raise_required_error(Text("This field is required"), required),
             calls |-> <<>>]
  ELSE [exc |-> "", value |-> field._default.v, error |-> NoError,
        calls |-> IF field._default.kind = "callable"
                  THEN <<Called("_default", field, _UNDEFINED)>> ELSE <<>>]

\* a bug: the default is validated like a converted value
clean_undefined_Revalidate(field) ==
  IF field._default.kind = "undefined"
  THEN [exc |-> "ValidationError", value |-> _UNDEFINED,
        error |-> raise_required_error(Text("This field is required"), required),
        calls |-> <<>>]
  ELSE LET v == validate(field, field._default.v)
       IN  [exc |-> v.exc, value |-> field._default.v, error |-> v.error,
            calls |-> (IF field._default.kind = "callable"
                       THEN <<Called("_default", field, _UNDEFINED)>> ELSE <<>>)
                      \o v.calls]

\* Field.clean, value is _UNDEFINED: lines 63-72
clean_undefined(field) ==
  IF field._default.kind = "undefined"
  THEN [exc |-> "ValidationError", value |-> _UNDEFINED,
        error |-> raise_required_error(Text("This field is required"), required),
        calls |-> <<>>]
  ELSE IF field._default.kind = "callable"
  THEN [exc |-> "", value |-> field._default.v, error |-> NoError,
        calls |-> <<Called("_default", field, _UNDEFINED)>>]
  ELSE [exc |-> "", value |-> field._default.v, error |-> NoError,
        calls |-> <<>>]

\* a bug: validate is given the raw value
clean_ValidateRaw(field, value) ==
  IF value = _UNDEFINED
  THEN clean_undefined(field)
  ELSE LET c == convert(field, value)
       IN  IF c.exc \in expected_exceptions_for_convert
           THEN [exc |-> "ValidationError", value |-> value,
                 error |-> raise_conversion_error(Text("Failed to convert"), conversion),
                 calls |-> c.calls]
           ELSE IF c.exc # ""
           THEN [exc |-> c.exc, value |-> value, error |-> NoError, calls |-> c.calls]
           ELSE LET v == validate(field, value)
                IN  [exc |-> v.exc, value |-> c.v, error |-> v.error,
                     calls |-> c.calls \o v.calls]

\* Field.clean: exc is "" when a value is returned, else the kind of the
\* exception that leaves clean; calls lists the calls clean made
clean(field, value) ==
  IF value = _UNDEFINED
  THEN clean_undefined(field)
  ELSE LET c == convert(field, value)
       IN  IF c.exc \in expected_exceptions_for_convert
           THEN [exc |-> "ValidationError", value |-> value,
                 error |-> raise_conversion_error(Text("Failed to convert"), conversion),
                 calls |-> c.calls]
           ELSE IF c.exc # ""
           THEN [exc |-> c.exc, value |-> value, error |-> NoError, calls |-> c.calls]
           ELSE LET v == validate(field, c.v)
                IN  [exc |-> v.exc, value |-> c.v, error |-> v.error,
                     calls |-> c.calls \o v.calls]

\* ------------------------------------------------------------------------
\* base.py: CleanedProperty, Constraint
\* ------------------------------------------------------------------------
\* A property is [constraint, depends_on, key, reads, test, message, code]:
\* depends_on lists the names of the Dependables it was declared with, key is
\* <<>> (None) or <<name of the field it is attached to>>.  Its function
\* `clean` reads the attributes `reads` of self in this order and then
\*   test = "never"  : returns
\*   test = "always" : raises self.Error(message, code)
\*   test = "twice"  : reads = value, max[, min]; raises when value * 2 > max
\*                     or value * 2 < min, else returns value * 2
\*   test = "lt"     : reads = a, b; returns when a < b, else raises
Body(reads, test, message, code) ==
  [reads |-> reads, test |-> test, message |-> message, code |-> code]

\* CleanedProperty.__init__(clean, depends_on, field)
CleanedProperty(body, depends_on, field) ==
  [constraint |-> FALSE, depends_on |-> depends_on, key |-> field,
   reads |-> body.reads, test |-> body.test,
   message |-> body.message, code |-> body.code]

\* Constraint(clean, depends_on, field)
Constraint(body, depends_on, field) ==
  [CleanedProperty(body, depends_on, field) EXCEPT !.constraint = TRUE]

\* Field.cleaned_property(*depends_on), Field.constraint(*depends_on) of
\* the field declared as `name`
field_cleaned_property(name, depends_on, body) ==
  CleanedProperty(body, <<name>> \o depends_on, <<name>>)
field_constraint(name, depends_on, body) ==
  Constraint(body, <<name>> \o depends_on, <<name>>)

\* cleaned_property(*depends_on), constraint(*depends_on)
cleaned_property(depends_on, body) == CleanedProperty(body, depends_on, <<>>)
constraint(depends_on, body) == Constraint(body, depends_on, <<>>)

\* CleanedMeta(fields, cleaned_properties): two dicts
CleanedMeta(fields, cleaned_properties) ==
  [_fields |-> fields, _cleaned_properties |-> cleaned_properties]

\* a record type: its name and its _meta; two types are the same type when
\* they have the same name
Class(name, m) == [__name__ |-> name, _meta |-> m]

\* isinstance(d, CleanedProperty) for the Dependable declared as `name`
IsCleanedProperty(m, name) == DictHas(m._cleaned_properties, name)
IsConstraint(m, name) ==
  /\ DictHas(m._cleaned_properties, name)
  /\ DictGet(m._cleaned_properties, name).constraint

\* CleanedProperty._iterate_depends_on: the names it yields, in order
RECURSIVE _iterate_depends_on(_, _)
\* a bug: the dependencies of a property dependency are not yielded
_iterate_depends_on_Direct(m, prop) == prop.depends_on

_iterate_depends_on(m, prop) ==
  Concat([n \in 1..Len(prop.depends_on) |->
    LET d == prop.depends_on[n]
    IN  (IF IsCleanedProperty(m, d)
         THEN _iterate_depends_on(m, DictGet(m._cleaned_properties, d))
         ELSE <<>>) \o <<d>>])

SeqToSet(q) == {q[n] : n \in 1..Len(q)}

\* a bug: the set is computed at every call and never kept
depends_on_propnames_Forget(m, prop, _depends_on_cache) ==
  [result |-> SeqToSet(_iterate_depends_on(m, prop)), _depends_on_cache |-> <<>>]

\* CleanedProperty.depends_on_propnames: the set it returns and the value it
\* leaves in _depends_on_cache (<<>> is None, <<S>> the set S)
depends_on_propnames(m, prop, _depends_on_cache) ==
  LET c == IF _depends_on_cache = <<>>
           THEN <<SeqToSet(_iterate_depends_on(m, prop))>>
           ELSE _depends_on_cache
  IN  [result |-> c[1], _depends_on_cache |-> c]

\* a bug: a missing key reads as None (dict.get)
__get__Lenient(m, d, name) ==
  IF IsConstraint(m, name)
  THEN [exc |-> "ConstraintAccess", key |-> name, value |-> None]
  ELSE [exc |-> "", key |-> name,
        value |-> IF DictHas(d, name) THEN DictGet(d, name) ELSE None]

\* Dependable.__get__ / Constraint.__get__ on an instance whose _data is d
__get__(m, d, name) ==
  IF IsConstraint(m, name)
  THEN [exc |-> "ConstraintAccess", key |-> name, value |-> None]
  ELSE IF DictHas(d, name)
       THEN [exc |-> "", key |-> name, value |-> DictGet(d, name)]
       ELSE [exc |-> "DirtyFieldAccess", key |-> name, value |-> None]

SetMin(S) == CHOOSE x \in S : \A y \in S : x <= y

\* cl_prop.clean(self), self._data = view
PropClean(m, prop, view) ==
  LET got == [n \in 1..Len(prop.reads) |-> __get__(m, view, prop.reads[n])]
      bad == {n \in 1..Len(got) : got[n].exc # ""}
      raised == [exc |-> "ValidationError", key |-> "", value |-> None,
                 error |-> ValidationError(prop.message, prop.code)]
      returned(v) == [exc |-> "", key |-> "",
                      value |-> IF prop.constraint THEN None ELSE v,
                      error |-> NoError]
      typeerror == [exc |-> "TypeError", key |-> "", value |-> None,
                    error |-> NoError]
  IN  IF bad # {}
      THEN [exc |-> got[SetMin(bad)].exc, key |-> got[SetMin(bad)].key,
            value |-> None, error |-> NoError]
      ELSE CASE prop.test = "always" -> raised
             [] prop.test = "twice" ->
                  IF \E n \in 1..Len(got) : got[n].value[1] # "int"
                  THEN typeerror
                  ELSE IF got[1].value[2] * 2 > got[2].value[2] THEN raised
                  ELSE IF Len(got) > 2 /\ got[1].value[2] * 2 < got[3].value[2]
                       THEN raised
                       ELSE returned(PyInt(got[1].value[2] * 2))
             [] prop.test = "lt" ->
                  IF \E n \in 1..Len(got) : got[n].value[1] # "int"
                  THEN typeerror
                  ELSE IF got[1].value[2] < got[2].value[2]
                       THEN returned(None) ELSE raised
             [] OTHER -> returned(PyInt(0))

\* ------------------------------------------------------------------------
\* The record types constructed (after tests/test_base.py)
\* ------------------------------------------------------------------------
CharOf(k) == IF k = 1 THEN "m" ELSE IF k = 2 THEN "u" ELSE "s"

\* the arguments (message, code) a property body passes to self.Error;
\* name is the key of the Mapping form
ErrorArgs(name) ==
  UNION {{ <<PyStr(msg), PyNone>>,
           <<PyStr(msg), PyStr("code")>>,
           <<PyList(<<PyStr(msg)>>), PyNone>>,
           <<PyList(<<[t |-> "tuple", s |-> <<PyStr(msg), PyStr("code")>>]>>), PyNone>>,
           <<PyMapping(<<<<name, PyList(<<PyStr(msg)>>)>>>>), PyNone>>,
           <<PyStr(msg), PyMapping(<<<<name, PyList(<<PyStr(msg)>>)>>>>)>> }
         : msg \in {[k \in 1..n |-> CharOf(k)] : n \in 0..MaxMsgLen}}

\* class C: a = IntField(); b = IntField()
TypeC == CleanedMeta(<<<<"a", IntField>>, <<"b", IntField>>>>, <<>>)

\* class F: a = IntField(lte=1).default(lambda: 3); b = IntField().opt();
\*          c = IntField(gte=2).default(1).opt()
TypeF ==
  CleanedMeta(
    <<<<"a", default(IntFieldOf(None, PyInt(1), None, None, <<>>),
                     ProducerDefault(PyInt(3)))>>,
      <<"b", opt(IntField)>>,
      <<"c", opt(default(IntFieldOf(None, None, None, PyInt(2), <<>>),
                         StaticDefault(PyInt(1))))>>>>,
    <<>>)

ValueMax == <<<<"value", IntField>>, <<"max", IntField>>>>
AB == <<<<"a", IntField>>, <<"b", IntField>>>>

\* test_cleaned_properties C1: @value.cleaned_property(max)
TypeC1(e) ==
  CleanedMeta(ValueMax,
    <<<<"twice_as_value",
        field_cleaned_property("value", <<"max">>,
          Body(<<"value", "max">>, "twice", e[1], e[2]))>>>>)

\* test_cleaned_properties C2: @cleaned_property(value, max)
TypeC2(e) ==
  CleanedMeta(ValueMax,
    <<<<"twice_as_value",
        cleaned_property(<<"value", "max">>,
          Body(<<"value", "max">>, "twice", e[1], e[2]))>>>>)

\* test_cleaned_properties C3: @cleaned_property(value), the body reads max
TypeC3(e) ==
  CleanedMeta(ValueMax,
    <<<<"twice_as_value",
        cleaned_property(<<"value">>,
          Body(<<"value", "max">>, "twice", e[1], e[2]))>>>>)

\* test_cleaned_properties C4: @value.cleaned_property(max, min)
TypeC4(e) ==
  CleanedMeta(ValueMax \o <<<<"min", IntField>>>>,
    <<<<"twice_as_value",
        field_cleaned_property("value", <<"max", "min">>,
          Body(<<"value", "max", "min">>, "twice", e[1], e[2]))>>>>)

\* test_constraints C1: @a.constraint(b)
TypeK1(e) ==
  CleanedMeta(AB,
    <<<<"a_must_lt_b",
        field_constraint("a", <<"b">>, Body(<<"a", "b">>, "lt", e[1], e[2]))>>>>)

\* test_constraints C2: @constraint(a, b)
TypeK2(e) ==
  CleanedMeta(AB,
    <<<<"a_must_lt_b",
        constraint(<<"a", "b">>, Body(<<"a", "b">>, "lt", e[1], e[2]))>>>>)

\* a free-standing constraint of b alone that always fails
TypeM(e) ==
  CleanedMeta(AB,
    <<<<"check_b", constraint(<<"b">>, Body(<<"b">>, "always", e[1], e[2]))>>>>)

\* a property p of a, a property q of b and p whose body reads a through p,
\* and a constraint r of b; q and r are attached to b and always fail
TypeQ(e) ==
  CleanedMeta(AB,
    <<<<"p", cleaned_property(<<"a">>, Body(<<"a">>, "never", e[1], e[2]))>>,
      <<"q", field_cleaned_property("b", <<"p">>,
               Body(<<"b", "p", "a">>, "always", e[1], e[2]))>>,
      <<"r", field_constraint("b", <<>>,
               Body(<<"b">>, "always", PyStr(<<"r">>), PyStr("r_code")))>>>>)

\* a constraint k of a, and a property p of a and k whose body reads k
TypeX(e) ==
  CleanedMeta(AB,
    <<<<"k", constraint(<<"a">>, Body(<<"a">>, "never", e[1], e[2]))>>,
      <<"p", cleaned_property(<<"b", "k">>,
               Body(<<"b", "k">>, "always", e[1], e[2]))>>>>)

\* a property p of a that always fails and a property q of p
TypeG(e) ==
  CleanedMeta(AB,
    <<<<"p", cleaned_property(<<"a">>, Body(<<"a">>, "always", e[1], e[2]))>>,
      <<"q", cleaned_property(<<"p">>, Body(<<"p">>, "never", e[1], e[2]))>>>>)

\* a property p of a, a constraint k of p and a property q of p and k, none
\* of which fails; declared in this order, or with q before p and k
TypeH(ordered, e) ==
  LET p == <<"p", cleaned_property(<<"a">>,
                    Body(<<"a">>, "never", e[1], e[2]))>>
      k == <<"k", constraint(<<"p">>,
                    Body(<<"p">>, "never", e[1], e[2]))>>
      q == <<"q", cleaned_property(<<"p", "k">>,
                    Body(<<"p">>, "never", e[1], e[2]))>>
  IN  CleanedMeta(AB, IF ordered THEN <<p, k, q>> ELSE <<q, p, k>>)

\* class V: a = IntField(); b = IntField(lte='a'); c = IntField()
TypeV ==
  CleanedMeta(<<<<"a", IntField>>,
                <<"b", IntFieldOf(None, BadStr, None, None, <<>>)>>,
                <<"c", IntField>>>>, <<>>)

\* TaggedUnionTests.test_spec: the record types A, AA(A), B, D, DE and
\* Irrelevant
ClassA ==
  Class("A", CleanedMeta(<<<<"tag", TagField(<<Str(0)>>)>>,
                           <<"one", IntFieldOf(None, PyInt(1), None, None, <<>>)>>,
                           <<"two", IntFieldOf(None, PyInt(2), None, None, <<>>)>>>>,
                         <<>>))
ClassB ==
  Class("B", CleanedMeta(<<<<"tag", TagField(<<Str(1)>>)>>,
                           <<"one", IntFieldOf(None, PyInt(1), None, None, <<>>)>>>>,
                         <<>>))
ClassD == Class("D", CleanedMeta(<<<<"tag", TagField(<<Str(3)>>)>>>>, <<>>))
ClassDE ==
  Class("DE", CleanedMeta(<<<<"tag", TagField(<<Str(3), Str(4)>>)>>,
                            <<"three", IntFieldOf(None, PyInt(3), None, None, <<>>)>>>>,
                          <<>>))

\* the keyword arguments a union is called with: the tag absent, None, a
\* str ('a', 'b', 'd', 'e', 'f' or '') or an int
Absent == <<"absent", 0>>
UnionKwargs ==
  {LET all == [tag |-> tag, one |-> one, two |-> two, three |-> three]
   IN  [k \in {n \in DOMAIN all : all[n] # Absent} |-> all[k]] :
     tag \in {Absent, None, EmptyStr, PyInt(1)} \cup {Str(k) : k \in {0, 1, 3, 4, 5}},
     one \in {Absent, PyInt(1), PyInt(MaxInt)},
     two \in {Absent, PyInt(1), PyInt(MaxInt)},
     three \in {Absent, PyInt(1)}}

\* raise self.Error('m')
PlainArg == <<PyStr(<<CharOf(1)>>), PyNone>>

Types ==
  {TypeC, TypeF, TypeV, TypeC3(PlainArg), TypeC4(PlainArg), TypeX(PlainArg),
   TypeG(PlainArg), TypeH(TRUE, PlainArg),
   TypeH(FALSE, PlainArg)}
  \cup {TypeC1(e) : e \in ErrorArgs("value")}
  \cup {TypeC2(e) : e \in ErrorArgs("value")}
  \cup {TypeK1(e) : e \in ErrorArgs("a")}
  \cup {TypeK2(e) : e \in ErrorArgs("a")}
  \cup {TypeM(e) : e \in ErrorArgs("a")}
  \cup {TypeQ(e) : e \in ErrorArgs("a")}

\* ------------------------------------------------------------------------
\* State
\* ------------------------------------------------------------------------
VARIABLES
  meta,               \* the _meta of the record type under construction
  _depends_on_cache,  \* _depends_on_cache of each of its property objects
  pc,                 \* position of the construction call
  kwargs,             \* its keyword arguments
  data,               \* Cleaned.__init__: data
  errors,             \* Cleaned.__init__: errors
  unnamed_errors,     \* Cleaned.__init__: unnamed_errors, <<>> is None
  _data,              \* self._data
  idx,                \* position of the running for loop
  raised,             \* the exception that left __init__
  log,                \* the calls __init__ made, in order
  fres,               \* the last direct call of Field.clean and its result
  attr,               \* the last attribute read on the instance
  union,              \* the TaggedUnion constructed last, <<>> for none
  ures,               \* the last call of the union and its result
  defined,            \* the last class statement and its result
  heap,               \* the dicts of an instance and of its snapshots
  inst,               \* the instance: its type and the place of its _data
  snaps,              \* the snapshots to_dict returned
  eqres,              \* the last comparison of the instance and its result
  setres,             \* the last assignment to an attribute of the instance
  cres,               \* the last call of clean of a NestedField or DictField
  threads             \* the construction calls that run concurrently

\* the variables of an instance that is kept
instances == <<heap, inst, snaps, eqres, setres>>

\* the variables of the calls made apart from a construction
probes == <<union, ures, defined, instances, cres, threads>>

vars == <<meta, _depends_on_cache, pc, kwargs, data, errors, unnamed_errors,
          _data, idx, raised, log, fres, attr, probes>>

NoExc == [exc |-> "", error |-> NoError]
NoCall == <<>>

FieldNames == DictKeySeq(meta._fields)

Init ==
  /\ meta \in Types
  /\ _depends_on_cache = [k \in DictKeys(meta._cleaned_properties) |-> <<>>]
  /\ pc = "idle"
  /\ kwargs = <<>>
  /\ data = <<>>
  /\ errors = <<>>
  /\ unnamed_errors = <<>>
  /\ _data = <<>>
  /\ idx = 0
  /\ raised = NoExc
  /\ log = <<>>
  /\ fres = NoCall
  /\ attr = NoCall
  /\ union = NoCall
  /\ ures = NoCall
  /\ defined = NoCall
  /\ heap = <<>>
  /\ inst = NoCall
  /\ snaps = <<>>
  /\ eqres = NoCall
  /\ setres = NoCall
  /\ cres = NoCall
  /\ threads = NoCall

\* a bug: kwargs.get(key)
kwargs_get_NoDefault(kw, key, dflt) == IF key \in DOMAIN kw THEN kw[key] ELSE None

\* kwargs.get(key, dflt)
kwargs_get(kw, key, dflt) == IF key \in DOMAIN kw THEN kw[key] ELSE dflt

\* where __init__ continues when n entries of a for loop remain unvisited:
\* <<pc, idx>>
FieldLoop(n) ==
  IF n <= Len(meta._fields) THEN <<"fields", n>>
  ELSE IF Len(meta._cleaned_properties) > 0 THEN <<"props", 1>>
       ELSE <<"pop", 0>>
PropLoop(n) ==
  IF n <= Len(meta._cleaned_properties) THEN <<"props", n>> ELSE <<"pop", 0>>

\* an entry of log: the call op ("clean" of a field, "eval" or "skip" of a
\* property) of the declaration `name`, the raw value cleaned, the kind of
\* exception it ended with ("" for none), the ValidationError raised and the
\* calls clean made
Event(op, name, raw, exc, error, calls) ==
  [op |-> op, name |-> name, raw |-> raw, exc |-> exc, error |-> error,
   calls |-> calls]

\* ------------------------------------------------------------------------
\* Cleaned.__init__(**kwargs)
\* ------------------------------------------------------------------------
\* the call: lines 262-266
Call(kw) ==
  /\ pc = "idle"
  /\ kwargs' = kw
  /\ data' = <<>>
  /\ errors' = <<>>
  /\ unnamed_errors' = <<>>
  /\ _data' = <<>>
  /\ raised' = NoExc
  /\ log' = <<>>
  /\ fres' = NoCall
  /\ attr' = NoCall
  /\ pc' = FieldLoop(1)[1]
  /\ idx' = FieldLoop(1)[2]
  /\ UNCHANGED <<meta, _depends_on_cache>>
  /\ UNCHANGED probes

\* one iteration of the field loop: lines 268-272
CleanField ==
  /\ pc = "fields"
  /\ LET key == meta._fields[idx][1]
         field == meta._fields[idx][2]
         value == kwargs_get(kwargs, key, _UNDEFINED)
         r == clean(field, value)
     IN  /\ log' = Append(log, Event("clean", key, value, r.exc, r.error, r.calls))
         /\ IF r.exc = ""
            THEN /\ data' = DictSet(data, key, r.value)
                 /\ UNCHANGED <<errors, raised>>
                 /\ pc' = FieldLoop(idx + 1)[1]
                 /\ idx' = FieldLoop(idx + 1)[2]
            ELSE IF r.exc = "ValidationError"
            THEN /\ errors' = DictSet(errors, key, r.error)
                 /\ UNCHANGED <<data, raised>>
                 /\ pc' = FieldLoop(idx + 1)[1]
                 /\ idx' = FieldLoop(idx + 1)[2]
            ELSE /\ raised' = [exc |-> r.exc, error |-> NoError]
                 /\ pc' = "raised"
                 /\ UNCHANGED <<data, errors, idx>>
  /\ UNCHANGED <<meta, _depends_on_cache, kwargs, unnamed_errors, _data, fres,
                 attr>>
  /\ UNCHANGED probes

\* self._data of lines 276-280: data restricted to depends_on
Restrict(d, depends_on) == SelectSeq(d, LAMBDA p : p[1] \in depends_on)

\* a bug: one present dependency is enough
DependenciesSatisfied_Any(view, depends_on) == Len(view) > 0 \/ depends_on = {}

\* line 281: len(self._data) == len(depends_on)
DependenciesSatisfied(view, depends_on) == Len(view) = Cardinality(depends_on)

\* a bug: the key of the property is ignored
ErrorKey_Unnested(cl_prop) == <<>>

\* lines 296-297: <<cl_prop.key()>> if cl_prop.key, else <<>>
ErrorKey(cl_prop) == IF cl_prop.key # <<>> THEN <<cl_prop.key[1]>> ELSE <<>>

\* one iteration of the property loop: lines 274-301
EvalProperty ==
  /\ pc = "props"
  /\ LET key == meta._cleaned_properties[idx][1]
         cl_prop == meta._cleaned_properties[idx][2]
         dep == depends_on_propnames(meta, cl_prop, _depends_on_cache[key])
         depends_on == dep.result
         view == Restrict(data, depends_on)
         r == PropClean(meta, cl_prop, view)
     IN  /\ _depends_on_cache' =
              [_depends_on_cache EXCEPT ![key] = dep._depends_on_cache]
         /\ _data' = view
         /\ IF ~DependenciesSatisfied(view, depends_on)
            THEN /\ log' = Append(log, Event("skip", key, None, "", NoError, <<>>))
                 /\ UNCHANGED <<data, errors, unnamed_errors, raised>>
                 /\ pc' = PropLoop(idx + 1)[1]
                 /\ idx' = PropLoop(idx + 1)[2]
            ELSE IF r.exc = ""
            THEN /\ log' = Append(log, Event("eval", key, None, "", NoError, <<>>))
                 /\ data' = DictSet(data, key, r.value)
                 /\ UNCHANGED <<errors, unnamed_errors, raised>>
                 /\ pc' = PropLoop(idx + 1)[1]
                 /\ idx' = PropLoop(idx + 1)[2]
            ELSE IF r.exc = "DirtyFieldAccess"
            THEN /\ log' = Append(log, Event("eval", key, None, r.exc, r.error, <<>>))
                 /\ raised' = [exc |-> "AssertionError", error |-> NoError]
                 /\ pc' = "raised"
                 /\ UNCHANGED <<data, errors, unnamed_errors, idx>>
            ELSE IF r.exc = "ValidationError"
            THEN /\ IF ErrorKey(cl_prop) # <<>>
                    THEN /\ errors' = DictSet(errors, ErrorKey(cl_prop)[1], r.error)
                         /\ UNCHANGED unnamed_errors
                         /\ log' = Append(log,
                              Event("eval", key, None, r.exc, r.error, <<>>))
                    ELSE /\ unnamed_errors' =
                              <<(IF unnamed_errors = <<>> THEN <<>>
                                 ELSE unnamed_errors[1]) \o <<r.error>>>>
                         /\ UNCHANGED errors
                         /\ log' = Append(log,
                              Event("eval", key, None, r.exc, r.error, <<>>))
                 /\ UNCHANGED <<data, raised>>
                 /\ pc' = PropLoop(idx + 1)[1]
                 /\ idx' = PropLoop(idx + 1)[2]
            ELSE /\ log' = Append(log, Event("eval", key, None, r.exc, r.error, <<>>))
                 /\ raised' = [exc |-> r.exc, error |-> NoError]
                 /\ pc' = "raised"
                 /\ UNCHANGED <<data, errors, unnamed_errors, idx>>
  /\ UNCHANGED <<meta, kwargs, fres, attr>>
  /\ UNCHANGED probes

\* a bug: nothing is popped
PopAll_Keep(d, props) == d

\* a bug: every property is popped, not only the constraints
PopAll_Properties(d, props) ==
  SelectSeq(d, LAMBDA e : \A n \in 1..Len(props) : props[n][1] # e[1])

\* data.pop(key, None) for every Constraint: lines 303-305
RECURSIVE PopAll(_, _)
PopAll(d, props) ==
  IF props = <<>> THEN d
  ELSE PopAll(IF props[1][2].constraint THEN DictPop(d, props[1][1]) ELSE d,
              Tail(props))

PopConstraints ==
  /\ pc = "pop"
  /\ data' = PopAll(data, meta._cleaned_properties)
  /\ pc' = "finish"
  /\ UNCHANGED <<meta, _depends_on_cache, kwargs, errors, unnamed_errors, _data,
                 idx, raised, log, fres, attr>>
  /\ UNCHANGED probes

\* the loop of lines 310-312: <<items, errors>> after it
RECURSIVE Combine(_, _, _)
Combine(items, errs, unnamed) ==
  IF unnamed = <<>> THEN <<items, errs>>
  ELSE Combine(items \o unnamed[1].items,
               DictUpdate(errs, unnamed[1].nested), Tail(unnamed))

\* bool(x) of an Optional[List] and of a dict
Truthy(x) == x # <<>> /\ x # <<<<>>>>

\* lines 307-315
Finish ==
  /\ pc = "finish"
  /\ IF Truthy(unnamed_errors) \/ errors # <<>>
     THEN LET c == IF Truthy(unnamed_errors)
                   THEN Combine(<<>>, errors, unnamed_errors[1])
                   ELSE <<<<>>, errors>>
              items == PyList([n \in 1..Len(c[1]) |-> PyItem(c[1][n])])
              nested == PyMapping([n \in 1..Len(c[2]) |->
                                     <<c[2][n][1], PyError(c[2][n][2])>>])
          IN  /\ errors' = c[2]
              /\ raised' = [exc |-> "ValidationError",
                            error |-> ValidationError(items, nested)]
              /\ pc' = "raised"
              /\ UNCHANGED _data
     ELSE /\ _data' = data
          /\ pc' = "returned"
          /\ UNCHANGED <<errors, raised>>
  /\ UNCHANGED <<meta, _depends_on_cache, kwargs, data, unnamed_errors, idx,
                 log, fres, attr>>
  /\ UNCHANGED probes

\* the caller drops the instance or the exception; the record type and its
\* property objects stay
Return ==
  /\ pc \in {"returned", "raised", "cleaned", "union", "dispatched", "defined", "instance",
            "compared", "nested"}
  /\ pc' = "idle"
  /\ kwargs' = <<>>
  /\ data' = <<>>
  /\ errors' = <<>>
  /\ unnamed_errors' = <<>>
  /\ _data' = <<>>
  /\ idx' = 0
  /\ raised' = NoExc
  /\ log' = <<>>
  /\ fres' = NoCall
  /\ attr' = NoCall
  /\ union' = NoCall
  /\ ures' = NoCall
  /\ defined' = NoCall
  /\ heap' = <<>>
  /\ inst' = NoCall
  /\ snaps' = <<>>
  /\ eqres' = NoCall
  /\ setres' = NoCall
  /\ cres' = NoCall
  /\ UNCHANGED threads
  /\ UNCHANGED <<meta, _depends_on_cache>>

\* ------------------------------------------------------------------------
\* Cleaned.__init__ as one call, for the callers that construct a record:
\* [exc, error, _data], exc being "" when the instance is returned
\* ------------------------------------------------------------------------
\* data, errors and unnamed_errors at line 264-266; exc is the exception
\* that ends the call before line 307
InitState == [data |-> <<>>, errors |-> <<>>, unnamed_errors |-> <<>>, exc |-> ""]

\* lines 270-273: the state after cleaning the field `key` gave r
__init__field(st, key, r) ==
  IF r.exc = "" THEN [st EXCEPT !.data = DictSet(st.data, key, r.value)]
  ELSE IF r.exc = "ValidationError"
  THEN [st EXCEPT !.errors = DictSet(st.errors, key, r.error)]
  ELSE [st EXCEPT !.exc = r.exc]

\* the field loop from its n-th iteration on: lines 268-272
RECURSIVE __init__fields(_, _, _, _)
__init__fields(m, kw, n, st) ==
  IF n > Len(m._fields) \/ st.exc # "" THEN st
  ELSE __init__fields(m, kw, n + 1,
         __init__field(st, m._fields[n][1],
                       clean(m._fields[n][2],
                             kwargs_get(kw, m._fields[n][1], _UNDEFINED))))

\* lines 286-301: the state after evaluating the property `key` gave r
__init__outcome(st, key, cl_prop, r) ==
  IF r.exc = "" THEN [st EXCEPT !.data = DictSet(st.data, key, r.value)]
  ELSE IF r.exc = "DirtyFieldAccess"
  THEN [st EXCEPT !.exc = "AssertionError"]
  ELSE IF r.exc = "ValidationError"
  THEN IF ErrorKey(cl_prop) # <<>>
       THEN [st EXCEPT !.errors =
               DictSet(st.errors, ErrorKey(cl_prop)[1], r.error)]
       ELSE [st EXCEPT !.unnamed_errors =
               <<(IF st.unnamed_errors = <<>> THEN <<>>
                  ELSE st.unnamed_errors[1]) \o <<r.error>>>>]
  ELSE [st EXCEPT !.exc = r.exc]

\* lines 275-301: one iteration of the property loop, the property
\* depending on depends_on
__init__prop(m, st, key, cl_prop, depends_on) ==
  IF ~DependenciesSatisfied(Restrict(st.data, depends_on), depends_on) THEN st
  ELSE __init__outcome(st, key, cl_prop,
                       PropClean(m, cl_prop, Restrict(st.data, depends_on)))

\* the property loop from its n-th iteration on: lines 274-301
RECURSIVE __init__props(_, _, _)
__init__props(m, n, st) ==
  IF n > Len(m._cleaned_properties) \/ st.exc # "" THEN st
  ELSE __init__props(m, n + 1,
         __init__prop(m, st, m._cleaned_properties[n][1],
                      m._cleaned_properties[n][2],
                      depends_on_propnames(m, m._cleaned_properties[n][2],
                                           <<>>).result))

\* lines 303-315: the outcome of the call, p being the state after the loops
__init__end(m, p) ==
  \* lines 307-312: <<items, nested>> of the error to raise
  LET c == IF Truthy(p.unnamed_errors)
           THEN Combine(<<>>, p.errors, p.unnamed_errors[1])
           ELSE <<<<>>, p.errors>>
  IN
  IF p.exc # "" THEN [exc |-> p.exc, error |-> NoError, _data |-> <<>>]
  ELSE IF Truthy(p.unnamed_errors) \/ p.errors # <<>>
  THEN [exc |-> "ValidationError",
        error |-> ValidationError(
                    PyList([n \in 1..Len(c[1]) |-> PyItem(c[1][n])]),
                    PyMapping([n \in 1..Len(c[2]) |->
                                 <<c[2][n][1], PyError(c[2][n][2])>>])),
        _data |-> <<>>]
  ELSE [exc |-> "", error |-> NoError,
        _data |-> PopAll(p.data, m._cleaned_properties)]

\* Cleaned.__init__(**kw) of the record type with _meta m: lines 262-315
__init__(m, kw) ==
  __init__end(m, __init__props(m, 1, __init__fields(m, kw, 1, InitState)))

\* ------------------------------------------------------------------------
\* base.py: TaggedUnion
\* ------------------------------------------------------------------------
\* a bug: a member given twice is kept twice
Members_Keep(cleaneds, _members) == _members \o cleaneds

\* lines 756-760: _members after the loop over cleaneds
RECURSIVE Members(_, _)
Members(cleaneds, _members) ==
  IF cleaneds = <<>> THEN _members
  ELSE Members(Tail(cleaneds),
               IF \E n \in 1..Len(_members) : _members[n] = cleaneds[1]
               THEN _members ELSE Append(_members, cleaneds[1]))

\* a bug: a tag that is mapped already is mapped again
MapTags_Overwrite(cl, tags, mapping) ==
  [exc |-> "",
   mapping |-> DictUpdate(mapping, [n \in 1..Len(tags) |-> <<tags[n], cl>>])]

\* lines 768-772, the loop over field.tags: [exc, mapping]
RECURSIVE MapTags(_, _, _)
MapTags(cl, tags, mapping) ==
  IF tags = <<>> THEN [exc |-> "", mapping |-> mapping]
  ELSE IF DictHas(mapping, tags[1])
  THEN [exc |-> "AssertionError", mapping |-> mapping]
  ELSE MapTags(cl, Tail(tags), DictSet(mapping, tags[1], cl))

\* lines 763-772, the loop over self.members: [exc, mapping]
RECURSIVE MapMembers(_, _, _)
MapMembers(members, tag_field_name, mapping) ==
  IF members = <<>> THEN [exc |-> "", mapping |-> mapping]
  ELSE LET cl == members[1]
       IN  IF ~DictHas(cl._meta._fields, tag_field_name)
           THEN [exc |-> "AssertionError", mapping |-> mapping]
           ELSE IF DictGet(cl._meta._fields, tag_field_name).cls # "TagField"
           THEN [exc |-> "AssertionError", mapping |-> mapping]
           ELSE LET r == MapTags(cl, DictGet(cl._meta._fields, tag_field_name).tags,
                                 mapping)
                IN  IF r.exc # "" THEN r
                    ELSE MapMembers(Tail(members), tag_field_name, r.mapping)

\* TaggedUnion.__init__(tag_field_name, *cleaneds, fallback): exc is "" when
\* the union is constructed
TaggedUnion(tag_field_name, cleaneds, fallback) ==
  LET members == Members(cleaneds, <<>>)
      r == MapMembers(members, tag_field_name, <<>>)
      u == [exc |-> "", tag_field_name |-> tag_field_name, fallback |-> fallback,
            members |-> members, mapping |-> r.mapping]
  IN  IF r.exc # "" THEN [u EXCEPT !.exc = r.exc]
      ELSE IF fallback # EmptyStr /\ ~DictHas(r.mapping, fallback)
      THEN [u EXCEPT !.exc = "AssertionError"]
      ELSE u

\* kwargs[key] = value
KwSet(kw, key, value) ==
  [k \in DOMAIN kw \cup {key} |-> IF k = key THEN value ELSE kw[k]]

\* a bug: `if not tag` instead of `if tag is None`
ResolveTag_Falsy(u, kw) ==
  LET tag == kwargs_get(kw, u.tag_field_name, None)
  IN  IF tag = None \/ tag = EmptyStr
      THEN <<u.fallback, KwSet(kw, u.tag_field_name, u.fallback)>>
      ELSE <<tag, kw>>

\* lines 780-781: <<tag, kwargs>> after them
ResolveTag(u, kw) ==
  LET tag == kwargs_get(kw, u.tag_field_name, None)
  IN  IF tag = None
      THEN <<u.fallback, KwSet(kw, u.tag_field_name, u.fallback)>>
      ELSE <<tag, kw>>

\* a bug: the first member is taken for every mapped tag
Lookup_First(u, tag) == IF DictHas(u.mapping, tag) THEN <<u.members[1]>> ELSE <<>>

\* a bug: an unmapped tag is looked up as the fallback
Lookup_Fallback(u, tag) ==
  IF DictHas(u.mapping, tag) THEN <<DictGet(u.mapping, tag)>>
  ELSE IF DictHas(u.mapping, u.fallback) THEN <<DictGet(u.mapping, u.fallback)>>
  ELSE <<>>

\* line 782: self.mapping.get(tag), <<>> is None
Lookup(u, tag) ==
  IF DictHas(u.mapping, tag) THEN <<DictGet(u.mapping, tag)>> ELSE <<>>

\* TaggedUnion.__call__(**kw): the outcome [exc, error, _data] of the call,
\* and in `called` every constructor it called: <<name of the type, kwargs>>
TaggedUnion__call__(u, kw) ==
  LET t == ResolveTag(u, kw)
      cl == Lookup(u, t[1])
  IN  IF cl # <<>>
      THEN [r |-> __init__(cl[1]._meta, t[2]),
            called |-> <<<<cl[1].__name__, t[2]>>>>]
      ELSE [r |-> [exc |-> "TypeError", error |-> NoError, _data |-> <<>>],
            called |-> <<>>]

\* ------------------------------------------------------------------------
\* base.py: CleanedBuilder
\* ------------------------------------------------------------------------
\* isinstance(value, Field), isinstance(value, CleanedProperty); an
\* attribute of a class body that is neither is [other |-> TRUE]
IsField(value) == "cls" \in DOMAIN value
IsProperty(value) == "constraint" \in DOMAIN value

\* lines 232-238: cleaned_fields and cleaned_properties after the loop over
\* bases
RECURSIVE Inherit(_, _)
Inherit(bases, acc) ==
  IF bases = <<>> THEN acc
  ELSE Inherit(Tail(bases),
         [cleaned_fields |->
            DictUpdate(acc.cleaned_fields, bases[1]._meta._fields),
          cleaned_properties |->
            DictUpdate(acc.cleaned_properties, bases[1]._meta._cleaned_properties)])

\* lines 240-249: the loop over the attributes of the class body
RECURSIVE Declare(_, _)
Declare(fields, acc) ==
  IF fields = <<>> \/ acc.exc # "" THEN acc
  ELSE LET key == fields[1][1]
           value == fields[1][2]
       IN  IF ~(IsField(value) \/ IsProperty(value)) THEN Declare(Tail(fields), acc)
           ELSE IF DictHas(acc.cleaned_fields, key) \/ DictHas(acc.cleaned_properties, key)
           THEN [acc EXCEPT !.exc = "AssertionError"]
           ELSE IF IsField(value)
           THEN Declare(Tail(fields),
                  [acc EXCEPT !.cleaned_fields = DictSet(acc.cleaned_fields, key, value)])
           ELSE Declare(Tail(fields),
                  [acc EXCEPT !.cleaned_properties =
                     DictSet(acc.cleaned_properties, key, value)])

\* CleanedBuilder.__new__(cls, name, bases, fields): exc is "" when the
\* record type cl is defined
__new__(name, bases, fields) ==
  LET i == Inherit(bases, [cleaned_fields |-> <<>>, cleaned_properties |-> <<>>])
      d == Declare(fields, [exc |-> "", cleaned_fields |-> i.cleaned_fields,
                            cleaned_properties |-> i.cleaned_properties])
  IN  [exc |-> d.exc,
       cl |-> Class(name, CleanedMeta(d.cleaned_fields, d.cleaned_properties))]

\* a property of the field a
PropertyOfA == cleaned_property(<<"a">>, Body(<<"a">>, "never", PlainArg[1], PlainArg[2]))

\* class P(Cleaned): x = IntField()
ClassP == __new__("P", <<>>, <<<<"x", IntField>>>>).cl
\* class C(Cleaned): a = IntField(); b = IntField()
ClassC == Class("C", TypeC)

\* ------------------------------------------------------------------------
\* Operations on a constructed instance, and direct calls of Field.clean
\* ------------------------------------------------------------------------
\* Cleaned.to_dict: the entries of dict(self._data)
to_dict(d) == d

\* a bug: to_dict returns self._data
SnapshotOf_Alias(h, ref) == [heap |-> h, ref |-> ref]

\* Cleaned.to_dict of the instance whose _data is the dict h[ref]:
\* dict(..) is a new dict
SnapshotOf(h, ref) == [heap |-> Append(h, to_dict(h[ref])), ref |-> Len(h) + 1]

\* d == e of two dicts: the same keys with equal values, in any order
DictEq(d, e) ==
  /\ DictKeys(d) = DictKeys(e)
  /\ \A k \in DictKeys(d) : DictGet(d, k) = DictGet(e, k)

\* isinstance(other, Cleaned): a value compared with an instance is an
\* instance of a record type, [__class__, _data], or a dict, [__class__, value]
IsCleaned(other) == "_data" \in DOMAIN other

\* a bug: a value without _data is compared as it is
__eq__Duck(self_data, other) ==
  DictEq(self_data, IF IsCleaned(other) THEN other._data ELSE other.value)

\* Cleaned.__eq__(self, other), self._data being self_data
__eq__(self_data, other) ==
  IF ~IsCleaned(other) THEN FALSE ELSE DictEq(self_data, other._data)

\* class CR(Cleaned): b = IntField(); a = IntField()
ClassCR == Class("CR", CleanedMeta(<<<<"b", IntField>>, <<"a", IntField>>>>, <<>>))
\* test_cleaned_properties as a record type
ClassC1 == Class("C1", TypeC1(PlainArg))

\* the record types instances are kept of, and the kwargs they are
\* constructed with
InstanceClasses == {ClassC, ClassCR, Class("F", TypeF), ClassC1}
InstanceKwargs(cl) ==
  UNION {[S -> {PyInt(1), PyInt(MaxInt)}] : S \in SUBSET DictKeys(cl._meta._fields)}

\* ------------------------------------------------------------------------
\* fields.py: NestedField
\* ------------------------------------------------------------------------
\* The argument of NestedField(..) is [kind |-> "type", cl |-> a record
\* type], [kind |-> "union", u |-> a TaggedUnion] or [kind |-> "callable",
\* returns |-> one of these two] (a function without arguments).  A value
\* cleaned is an instance [__class__, _data], or [__class__ |-> "dict",
\* value |-> its entries as keyword arguments], or [__class__ |-> "int"].
\* The outcome is that of TaggedUnion__call__: [r |-> [exc, error, _data],
\* called |-> the constructors called].

\* _type(**kw) for what self._server() returned
Construct(_type, kw) ==
  IF _type.kind = "type"
  THEN [r |-> __init__(_type.cl._meta, kw),
        called |-> <<<<_type.cl.__name__, kw>>>>]
  ELSE TaggedUnion__call__(_type.u, kw)

\* calling what a call c of a union returned: an instance is not callable
NotCallable(c) ==
  IF c.r.exc = ""
  THEN [c EXCEPT !.r = [exc |-> "TypeError", error |-> NoError, _data |-> <<>>]]
  ELSE c

\* NestedField.convert: lines 568-577.  isinstance(cleaned, type) is false
\* for a TaggedUnion, which is then self._server itself: self._server()
\* calls the union without keyword arguments
NestedField_convert(cleaned, value) ==
  IF cleaned.kind = "union"
  THEN NotCallable(TaggedUnion__call__(cleaned.u, <<>>))
  ELSE IF value.__class__ = "int"
  THEN [r |-> [exc |-> "TypeError", error |-> NoError, _data |-> <<>>],
        called |-> <<>>]
  ELSE Construct(IF cleaned.kind = "callable" THEN cleaned.returns ELSE cleaned,
                 IF IsCleaned(value)
                 THEN [k \in DictKeys(value._data) |-> DictGet(value._data, k)]
                 ELSE value.value)

\* Field.clean, lines 74-85, for the outcome c of convert of a field whose
\* validate is `pass`
clean_converted(c) ==
  IF c.r.exc \in expected_exceptions_for_convert
  THEN [c EXCEPT !.r = [exc |-> "ValidationError",
                        error |-> raise_conversion_error(
                                    Text("Failed to convert"), conversion),
                        _data |-> <<>>]]
  ELSE c

\* the values cleaned by NestedField(cl): the instances of cl, the dicts
\* instances of cl are constructed from, and an int
NestedValues(cl) ==
  {[__class__ |-> "dict", value |-> kw] : kw \in InstanceKwargs(cl)}
    \cup {[__class__ |-> cl.__name__, _data |-> r._data] :
            r \in {i \in {__init__(cl._meta, kw) : kw \in InstanceKwargs(cl)} :
                     i.exc = ""}}
    \cup {[__class__ |-> "int"]}

\* ------------------------------------------------------------------------
\* fields.py: DictField
\* ------------------------------------------------------------------------

\* f'{k}': an int and the str of its digits are formatted alike
Format(k) ==
  CASE k[1] \in {"int", "numstr"} -> ToString(k[2])
    [] k[1] = "none" -> "None"
    [] k = EmptyStr -> ""
    [] OTHER -> <<"a", "b", "c", "d", "e", "f">>[k[2] + 1]

\* lines 540-544, the inner try: r is the outcome of self.value.clean(v);
\* st is [exc, result, errors], exc an exception that leaves convert
DictField_value(_key, r, st) ==
  IF r.exc = "" THEN [st EXCEPT !.result = DictSet(@, _key, r.value)]
  ELSE IF r.exc = "ValidationError"
  THEN [st EXCEPT !.errors = DictSet(@, Format(_key), r.error)]
  ELSE [st EXCEPT !.exc = r.exc]

\* lines 545-551, the handler of a key failure e: r is the outcome of
\* self.value.clean(k)
DictField_except(k, e, r, st) ==
  IF r.exc = "" THEN [st EXCEPT !.errors = DictSet(@, Format(k) \o ":key", e)]
  ELSE IF r.exc = "ValidationError"
  THEN [st EXCEPT !.errors = DictSet(DictSet(@, Format(k) \o ":key", e),
                                     Format(k), r.error)]
  ELSE [st EXCEPT !.errors = DictSet(@, Format(k) \o ":key", e), !.exc = r.exc]

\* lines 538-551, one turn of the loop: _key is the outcome of
\* self.key.clean(k); after a key failure the value field cleans k
DictField_entry(self, k, v, _key, st) ==
  IF _key.exc = "" THEN DictField_value(_key.value, clean(self.value, v), st)
  ELSE IF _key.exc = "ValidationError"
  THEN DictField_except(k, _key.error, clean(self.value, k), st)
  ELSE [st EXCEPT !.exc = _key.exc]

\* lines 537-551: for k, v in value.items()
RECURSIVE DictField_loop(_, _, _)
DictField_loop(self, items, st) ==
  IF items = <<>> \/ st.exc # "" THEN st
  ELSE DictField_loop(self, Tail(items),
                      DictField_entry(self, items[1][1], items[1][2],
                                      clean(self.key, items[1][1]), st))

\* lines 552-553
DictField_return(st) ==
  IF st.exc # "" THEN [exc |-> st.exc, error |-> NoError, _data |-> <<>>]
  ELSE IF st.errors # <<>>
  THEN [exc |-> "ValidationError",
        error |-> ValidationError(
                    PyMapping([n \in 1..Len(st.errors) |->
                                 <<st.errors[n][1], PyError(st.errors[n][2])>>]),
                    PyNone),
        _data |-> <<>>]
  ELSE [exc |-> "", error |-> NoError, _data |-> st.result]

\* DictField.convert of a dict, its entries in insertion order
DictField_convert(self, value) ==
  [r |-> DictField_return(
           DictField_loop(self, value, [exc |-> "", result |-> <<>>, errors |-> <<>>])),
   called |-> <<>>]

\* getattr(instance, name) for a declared name
GetAttr(name) ==
  /\ pc = "returned"
  /\ attr' = <<__get__(meta, _data, name)>>
  /\ UNCHANGED <<meta, _depends_on_cache, pc, kwargs, data, errors,
                 unnamed_errors, _data, idx, raised, log, fres>>
  /\ UNCHANGED probes

\* direct calls are made while no construction runs; they do not depend on
\* the record type under construction and are followed for one of them
Probing == pc = "idle" /\ meta = TypeC

\* field.clean(value) on a field of FieldPool
CleanCall(field, value) ==
  /\ Probing
  /\ fres' = <<[field |-> field, value |-> value, r |-> clean(field, value)]>>
  /\ pc' = "cleaned"
  /\ UNCHANGED <<meta, _depends_on_cache, kwargs, data, errors,
                 unnamed_errors, _data, idx, raised, log, attr>>
  /\ UNCHANGED probes

\* NestedField(cleaned).clean(value)
NestedClean(cleaned, value) ==
  /\ Probing
  /\ cres' = <<[cleaned |-> cleaned, value |-> value,
                c |-> clean_converted(NestedField_convert(cleaned, value))]>>
  /\ pc' = "nested"
  /\ UNCHANGED <<meta, _depends_on_cache, kwargs, data, errors,
                 unnamed_errors, _data, idx, raised, log, fres, attr, union,
                 ures, defined, instances, threads>>

\* DictField(value, key).clean(a dict)
DictClean(self, value) ==
  /\ Probing
  /\ cres' = <<[cleaned |-> self, value |-> [__class__ |-> "dict", value |-> value],
                c |-> clean_converted(DictField_convert(self, value))]>>
  /\ pc' = "nested"
  /\ UNCHANGED <<meta, _depends_on_cache, kwargs, data, errors,
                 unnamed_errors, _data, idx, raised, log, fres, attr, union,
                 ures, defined, instances, threads>>

\* u = TaggedUnion(tag_field_name, *cleaneds, fallback=fallback)
NewTaggedUnion(tag_field_name, cleaneds, fallback) ==
  /\ Probing
  /\ union' = <<[cleaneds |-> cleaneds,
                 u |-> TaggedUnion(tag_field_name, cleaneds, fallback)]>>
  /\ pc' = "union"
  /\ UNCHANGED <<meta, _depends_on_cache, kwargs, data, errors,
                 unnamed_errors, _data, idx, raised, log, fres, attr, cres, threads,
                 ures,
                 defined, instances>>

\* u(**kw)
UnionCall(kw) ==
  /\ pc = "union"
  /\ union[1].u.exc = ""
  /\ ures' = <<[kwargs |-> kw, r |-> TaggedUnion__call__(union[1].u, kw)]>>
  /\ pc' = "dispatched"
  /\ UNCHANGED <<meta, _depends_on_cache, kwargs, data, errors,
                 unnamed_errors, _data, idx, raised, log, fres, attr, cres, threads,
                 union,
                 defined, instances>>

\* class name(*bases): fields
ClassStatement(name, bases, fields) ==
  /\ Probing
  /\ defined' = <<[bases |-> bases, fields |-> fields,
                   r |-> __new__(name, bases, fields)]>>
  /\ pc' = "defined"
  /\ UNCHANGED <<meta, _depends_on_cache, kwargs, data, errors,
                 unnamed_errors, _data, idx, raised, log, fres, attr, cres, threads,
                 union,
                 ures, instances>>

\* self = cl(**kw)
NewInstance(cl, kw) ==
  /\ Probing
  /\ LET r == __init__(cl._meta, kw)
     IN  /\ inst' = <<[cl |-> cl, kwargs |-> kw, exc |-> r.exc, _data |-> 1]>>
         /\ heap' = <<r._data>>
  /\ pc' = "instance"
  /\ UNCHANGED <<meta, _depends_on_cache, kwargs, data, errors,
                 unnamed_errors, _data, idx, raised, log, fres, attr, cres, threads,
                 union,
                 ures, defined, snaps, eqres, setres>>

\* the changes made to the snapshots so far
RECURSIVE ChangesOf(_)
ChangesOf(sn) == IF sn = <<>> THEN 0 ELSE sn[1].changes + ChangesOf(Tail(sn))

\* snapshot = self.to_dict()
ToDict ==
  /\ pc = "instance"
  /\ inst[1].exc = ""
  /\ Len(snaps) < MaxSnapshots
  /\ LET r == SnapshotOf(heap, inst[1]._data)
     IN  /\ heap' = r.heap
         /\ snaps' = Append(snaps, [ref |-> r.ref, taken |-> r.heap[r.ref],
                                     after |-> ChangesOf(snaps), changes |-> 0])
  /\ UNCHANGED <<meta, _depends_on_cache, pc, kwargs, data, errors,
                 unnamed_errors, _data, idx, raised, log, fres, attr, cres, threads,
                 union,
                 ures, defined, inst, eqres, setres>>

\* snapshot[key] = 0, or snapshot.pop(key, None)
ChangeSnapshot(n, op, key) ==
  /\ pc = "instance"
  /\ n \in 1..Len(snaps)
  /\ ChangesOf(snaps) < MaxChanges
  /\ heap' = [heap EXCEPT ![snaps[n].ref] =
                IF op = "set" THEN DictSet(@, key, PyInt(0)) ELSE DictPop(@, key)]
  /\ snaps' = [snaps EXCEPT ![n].changes = @ + 1]
  /\ UNCHANGED <<meta, _depends_on_cache, pc, kwargs, data, errors,
                 unnamed_errors, _data, idx, raised, log, fres, attr, cres, threads,
                 union,
                 ures, defined, inst, eqres, setres>>

\* self.name = value
SetAttr(name) ==
  /\ pc = "instance"
  /\ inst[1].exc = ""
  \* Dependable.__set__ raises AttributeError
  /\ setres' = <<[exc |-> "AttributeError", key |-> name]>>
  /\ UNCHANGED <<meta, _depends_on_cache, pc, kwargs, data, errors,
                 unnamed_errors, _data, idx, raised, log, fres, attr, cres, threads,
                 union,
                 ures, defined, heap, inst, snaps, eqres>>

\* self == other, the last use of the instance
Compare(other) ==
  /\ pc = "instance"
  /\ inst[1].exc = ""
  /\ snaps = <<>>
  /\ eqres' = <<[other |-> other, r |-> __eq__(heap[inst[1]._data], other)]>>
  /\ pc' = "compared"
  /\ UNCHANGED <<meta, _depends_on_cache, kwargs, data, errors,
                 unnamed_errors, _data, idx, raised, log, fres, attr, cres, threads,
                 union,
                 ures, defined, heap, inst, snaps, setres>>

Next ==
  LET \* the fields cleaned by direct calls of Field.clean (tests FieldTests)
      FieldPool ==
        LET plain == {IntField, IntFieldOf(None, PyInt(1), None, None, <<>>),
                      IntFieldOf(PyInt(MaxInt), None, PyInt(1), None, <<{1, 2}>>)}
            defaults == {NoDefault, StaticDefault(PyInt(MaxInt)), StaticDefault(None),
                         ProducerDefault(PyInt(MaxInt))}
            withd == {default(f, d) : f \in plain, d \in defaults}
        IN  withd \cup {opt(f) : f \in withd}
                  \cup {default(opt(f), StaticDefault(None)) : f \in plain}
                  \cup {IntFieldOf(None, BadStr, None, None, <<>>)}
      ClassAA == Class("AA", ClassA._meta)
      Irrelevant ==
        Class("Irrelevant",
              CleanedMeta(<<<<"other_tag_name", TagField(<<Str(8)>>)>>>>, <<>>))
      \* the arguments of TaggedUnion(..): the discriminator names, the member
      \* lists of at most MaxMembers types and the fallbacks '', 'a' and 'c'
      MemberLists ==
        UNION {[1..n -> {ClassA, ClassAA, ClassB, ClassD, ClassDE, Irrelevant}]
               : n \in 1..MaxMembers}
      \* class Q(Cleaned): a = IntField(); @cleaned_property(a) def x(self)
      ClassQ == __new__("Q", <<>>, <<<<"a", IntField>>, <<"x", PropertyOfA>>>>).cl
      \* class PY(P): y = IntField()
      ClassPY == __new__("PY", <<ClassP>>, <<<<"y", IntField>>>>).cl
      \* the class statements: at most MaxBases bases, and a body of at most
      \* MaxAttrs attributes with different names
      BaseLists == UNION {[1..n -> {ClassP, ClassQ, ClassPY, ClassC}] : n \in 0..MaxBases}
      Bodies ==
        {b \in UNION {[1..n -> {"x", "a", "z"} \X {IntField, PropertyOfA, [other |-> TRUE]}]
                      : n \in 0..MaxAttrs} :
           \A i, j \in 1..Len(b) : i # j => b[i][1] # b[j][1]}
      \* the unions wrapped in a NestedField, as NestedField(TaggedUnion(..)) and
      \* as NestedField(lambda: TaggedUnion(..)): without fallback, with the
      \* fallback 'd' of a member that has no other field, and with the fallback
      \* 'a' of a member that has required fields
      NestedUnions ==
        LET us == {TaggedUnion("tag", <<ClassA, ClassB, ClassDE>>, EmptyStr),
                   TaggedUnion("tag", <<ClassA, ClassB, ClassD>>, Str(3)),
                   TaggedUnion("tag", <<ClassA, ClassB, ClassD>>, Str(0))}
        IN  {[kind |-> "union", u |-> u] : u \in us}
              \cup {[kind |-> "callable", returns |-> [kind |-> "union", u |-> u]]
                    : u \in us}
      \* DictField(IntField(..), IntField(..)) with and without bounds
      DictFields ==
        {[kind |-> "dict", value |-> value, key |-> key] :
           value \in {IntField, IntFieldOf(None, PyInt(1), None, None, <<>>)},
           key \in {IntField, IntFieldOf(None, None, None, PyInt(2), <<>>)}}
      \* the raw dicts: at most two entries, the keys distinct
      RawDicts ==
        LET keys == {BadStr, NumStr(1), PyInt(1), PyInt(MaxInt)}
            values == {BadStr, PyInt(1), PyInt(MaxInt)}
        IN  {<<>>} \cup {<<<<k, v>>>> : k \in keys, v \in values}
              \cup {<<<<k[1], v>>, <<k[2], w>>>> :
                      k \in {p \in keys \X keys : p[1] # p[2]},
                      v \in values, w \in values}
      \* the values an instance is compared with
      Others ==
        LET made == {<<cl, __init__(cl._meta, kw)>> :
                       cl \in {ClassC, ClassCR}, kw \in InstanceKwargs(ClassC)}
            ok == {m \in made : m[2].exc = ""}
        IN  {[__class__ |-> m[1].__name__, _data |-> m[2]._data] : m \in ok}
              \cup {[__class__ |-> "dict", value |-> m[2]._data] : m \in ok}
  IN
  \/ /\ pc = "idle"
     /\ \E S \in SUBSET SeqToSet(FieldNames) : \E kw \in [S -> RawValues] : Call(kw)
  \/ CleanField
  \/ EvalProperty
  \/ PopConstraints
  \/ Finish
  \/ Return
  \/ /\ pc = "returned"
     /\ \E name \in SeqToSet(FieldNames)
                     \cup SeqToSet(DictKeySeq(meta._cleaned_properties)) :
          GetAttr(name)
  \/ /\ Probing
     /\ \E field \in FieldPool, value \in RawValues \cup {_UNDEFINED} :
          CleanCall(field, value)
  \/ /\ Probing
     /\ \E tag_field_name \in {"tag", "one"}, cleaneds \in MemberLists,
           fallback \in {EmptyStr, Str(0), Str(2)} :
          NewTaggedUnion(tag_field_name, cleaneds, fallback)
  \/ /\ pc = "union"
     /\ \E kw \in UnionKwargs : UnionCall(kw)
  \/ /\ Probing
     /\ \E bases \in BaseLists, fields \in Bodies : ClassStatement("R", bases, fields)
  \/ /\ Probing
     /\ \E cl \in InstanceClasses : \E kw \in InstanceKwargs(cl) : NewInstance(cl, kw)
  \/ /\ Probing
     /\ \E cl \in InstanceClasses : \E value \in NestedValues(cl) :
          NestedClean([kind |-> "type", cl |-> cl], value)
  \/ /\ Probing
     /\ \E cleaned \in NestedUnions, kw \in UnionKwargs :
          NestedClean(cleaned, [__class__ |-> "dict", value |-> kw])
  \/ /\ Probing
     /\ \E self \in DictFields, value \in RawDicts : DictClean(self, value)
  \/ ToDict
  \/ /\ pc = "instance"
     /\ \E n \in 1..Len(snaps), op \in {"set", "pop"},
           key \in {inst[1].cl._meta._fields[1][1], "z"} : ChangeSnapshot(n, op, key)
  \/ /\ pc = "instance"
     /\ \E name \in DictKeys(inst[1].cl._meta._fields)
                     \cup DictKeys(inst[1].cl._meta._cleaned_properties) : SetAttr(name)
  \/ /\ pc = "instance" /\ snaps = <<>>
     /\ \E other \in Others : Compare(other)

Spec == Init /\ [][Next]_vars

\* ------------------------------------------------------------------------
\* base.py: two construction calls of one record type that run concurrently
\* ------------------------------------------------------------------------
\* Each thread runs Cleaned.__init__(**kwargs) of the record type `meta`.
\* The record type and the property objects, with their _depends_on_cache,
\* are shared; data, errors, unnamed_errors and the instance are local to
\* the call.  A thread is
\*   [pc, kwargs, st, idx, depends_on, outcome, filled]
\* st being the working data of lines 263-266 (as InitState), idx the
\* position in the property loop, depends_on the local of line 275, outcome
\* <<the outcome of the call>> once it ended, and filled the properties
\* whose cache this thread assigned.  A step is what runs between two reads
\* or writes of _depends_on_cache.
Threads == {1, 2}

\* a bug: the working data is kept in one place for all the calls
Owner_Shared(t) == 1

\* lines 263-266: the working data of a call is allocated by the call
Owner(t) == t

\* the variables of the calls followed one at a time
alone == <<pc, kwargs, data, errors, unnamed_errors, _data, idx, raised, log,
           fres, attr, union, ures, defined, instances, cres>>

\* the property a thread is at: <<key, cl_prop>>
Current(t) == meta._cleaned_properties[threads[t].idx]

\* threads after thread t ran a part of __init__ that left st
Ran(t, st, n) ==
  [threads EXCEPT
     ![Owner(t)].st = st,
     ![t].idx = n,
     \* line 274, the head of the property loop
     ![t].pc = IF n > Len(meta._cleaned_properties) \/ st.exc # ""
               THEN "end" ELSE "check"]

\* lines 263-272: the allocations and the field loop
T_Fields(t) ==
  /\ threads[t].pc = "fields"
  /\ threads' = Ran(t, __init__fields(meta, threads[t].kwargs, 1, InitState), 1)
  /\ UNCHANGED <<meta, _depends_on_cache, alone>>

\* line 189: if self._depends_on_cache is None
T_Check(t) ==
  /\ threads[t].pc = "check"
  /\ threads' = [threads EXCEPT ![t].pc =
                   IF _depends_on_cache[Current(t)[1]] = <<>> THEN "fill" ELSE "load"]
  /\ UNCHANGED <<meta, _depends_on_cache, alone>>

\* line 190: self._depends_on_cache = set(self._iterate_depends_on())
T_Fill(t) ==
  /\ threads[t].pc = "fill"
  /\ _depends_on_cache' =
       [_depends_on_cache EXCEPT ![Current(t)[1]] =
          <<SeqToSet(_iterate_depends_on(meta, Current(t)[2]))>>]
  /\ threads' = [threads EXCEPT ![t].pc = "load",
                                ![t].filled = @ \cup {Current(t)[1]}]
  /\ UNCHANGED <<meta, alone>>

\* line 191: return self._depends_on_cache, assigned to depends_on at 275
T_Load(t) ==
  /\ threads[t].pc = "load"
  /\ threads' = [threads EXCEPT ![t].pc = "evaluate",
                                ![t].depends_on = _depends_on_cache[Current(t)[1]][1]]
  /\ UNCHANGED <<meta, _depends_on_cache, alone>>

\* lines 276-301: the rest of the iteration
T_Evaluate(t) ==
  /\ threads[t].pc = "evaluate"
  /\ threads' = Ran(t, __init__prop(meta, threads[Owner(t)].st, Current(t)[1],
                                    Current(t)[2], threads[t].depends_on),
                    threads[t].idx + 1)
  /\ UNCHANGED <<meta, _depends_on_cache, alone>>

\* lines 303-315: the call raises or keeps its data
T_End(t) ==
  /\ threads[t].pc = "end"
  /\ threads' = [threads EXCEPT
                   ![t].outcome = <<__init__end(meta, threads[Owner(t)].st)>>,
                   ![t].pc = "done"]
  /\ UNCHANGED <<meta, _depends_on_cache, alone>>

\* two threads are about to call the record type, no property was used yet
InitC ==
  \* the record types of Types that declare properties, one of each form
  /\ meta \in {TypeC1(PlainArg), TypeC3(PlainArg), TypeX(PlainArg),
               TypeG(PlainArg), TypeQ(PlainArg), TypeH(TRUE, PlainArg),
               TypeH(FALSE, PlainArg)}
  /\ _depends_on_cache = [k \in DictKeys(meta._cleaned_properties) |-> <<>>]
  \* for every field a thread passes 1, MaxInt or nothing
  /\ threads \in
       [Threads ->
          {[pc |-> "fields", kwargs |-> kw, st |-> InitState, idx |-> 0,
            depends_on |-> {}, outcome |-> NoCall, filled |-> {}] :
             kw \in UNION {[S -> {PyInt(1), PyInt(MaxInt)}] :
                             S \in SUBSET DictKeys(meta._fields)}}]
  /\ pc = "idle"
  /\ kwargs = <<>>
  /\ data = <<>>
  /\ errors = <<>>
  /\ unnamed_errors = <<>>
  /\ _data = <<>>
  /\ idx = 0
  /\ raised = NoExc
  /\ log = <<>>
  /\ fres = NoCall
  /\ attr = NoCall
  /\ union = NoCall
  /\ ures = NoCall
  /\ defined = NoCall
  /\ heap = <<>>
  /\ inst = NoCall
  /\ snaps = <<>>
  /\ eqres = NoCall
  /\ setres = NoCall
  /\ cres = NoCall

NextC ==
  \/ \E t \in Threads : T_Fields(t)
  \/ \E t \in Threads : T_Check(t)
  \/ \E t \in Threads : T_Fill(t)
  \/ \E t \in Threads : T_Load(t)
  \/ \E t \in Threads : T_Evaluate(t)
  \/ \E t \in Threads : T_End(t)

SpecC == InitC /\ [][NextC]_vars

\* ------------------------------------------------------------------------
\* Properties
\* ------------------------------------------------------------------------
\* the construction call has ended with an instance / with a ValidationError
Constructed == pc = "returned"
Rejected == pc = "raised" /\ raised.exc = "ValidationError"

Prop(name) == DictGet(meta._cleaned_properties, name)
LogIdx == 1..Len(log)
\* the entries of log of field cleanings and of property evaluations that
\* ended with a ValidationError
FailedIdx == {n \in LogIdx : log[n].exc = "ValidationError"}
\* the name errors[..] a failure is recorded under, "" for an unnested one
FiledUnder(e) ==
  IF e.op = "clean" THEN e.name
  ELSE IF Prop(e.name).key # <<>> THEN Prop(e.name).key[1] ELSE ""
UnnestedFailures ==
  SelectSeq(log, LAMBDA e : e.exc = "ValidationError" /\ FiledUnder(e) = "")
\* the failure recorded last under errors[name]
LastFiled(name) ==
  log[CHOOSE n \in FailedIdx :
        /\ FiledUnder(log[n]) = name
        /\ \A k \in FailedIdx : FiledUnder(log[k]) = name => k <= n].error

\* C1: a construction call returns an instance if and only if no field
\* cleaning failed and no property or constraint raised a validation
\* failure; otherwise it raises one ValidationError whose items are the
\* items of the unnested failures, in order, and whose nested map holds
\* every errors[name] entry.
C1_AllOrNothing ==
  /\ Constructed => FailedIdx = {}
  /\ Rejected =>
       /\ FailedIdx # {}
       /\ raised.error.items =
            Concat([n \in 1..Len(UnnestedFailures) |-> UnnestedFailures[n].error.items])
       /\ \A n \in FailedIdx :
            FiledUnder(log[n]) # "" =>
              /\ DictHas(raised.error.nested, FiledUnder(log[n]))
              /\ DictGet(raised.error.nested, FiledUnder(log[n]))
                   = LastFiled(FiledUnder(log[n]))

\* C2: every declared field is cleaned exactly once, in declaration order,
\* with the raw value supplied for its name or Undefined when the name is
\* absent; a validation failure of a field does not stop the cleaning of
\* the following fields, and all fields are cleaned before any property or
\* constraint is evaluated.
C2_FieldsCleanedInOrder ==
  LET cleans == SelectSeq(log, LAMBDA e : e.op = "clean")
  IN  /\ Len(cleans) <= Len(meta._fields)
      /\ \A n \in 1..Len(cleans) :
           /\ log[n] = cleans[n]
           /\ cleans[n].name = meta._fields[n][1]
           /\ cleans[n].raw = IF cleans[n].name \in DOMAIN kwargs
                              THEN kwargs[cleans[n].name] ELSE _UNDEFINED
      /\ (\/ pc \in {"props", "pop", "finish", "returned"}
          \/ Rejected
          \/ Len(log) > Len(cleans))
         => Len(cleans) = Len(meta._fields)

\* a field failed validation, the fields after it were cleaned and a
\* property was evaluated after them
C2_Witness ==
  /\ Len(log) > Len(meta._fields)
  /\ log[1].exc = "ValidationError"
  /\ Len(meta._fields) > 1
  /\ log[Len(log)].op = "eval"

\* C3: for a record with only fields, a failed construction raises one error
\* whose nested map has exactly the names of the fields whose cleaning
\* failed.
C3_NestedIsFailedFields ==
  (Rejected /\ meta._cleaned_properties = <<>>) =>
    /\ DictKeys(raised.error.nested) = {log[n].name : n \in FailedIdx}
    /\ Len(raised.error.nested) = Cardinality(FailedIdx)
    /\ \A n \in LogIdx :
         log[n].exc = "" => ~DictHas(raised.error.nested, log[n].name)

\* one field of a record with only fields failed and another one did not
C3_Witness ==
  /\ Rejected
  /\ meta._cleaned_properties = <<>>
  /\ \E n \in LogIdx : log[n].exc = ""
  /\ DictKeys(raised.error.nested) # {}

\* the cleaning of the dependency d failed in this call
DependencyFailed(d) ==
  \E n \in FailedIdx : log[n].name = d
\* the property p is gated: one of its declared dependencies failed
Gated(p) ==
  \E n \in 1..Len(Prop(p).depends_on) : DependencyFailed(Prop(p).depends_on[n])

\* C4: if the cleaning of any declared dependency of a property or
\* constraint P failed, P's function is not invoked in that construction
\* call and P contributes no entry to the raised error: when nothing else
\* failed than fields, the error has no items and only the failed fields as
\* keys.
C4_DependencyGating ==
  /\ \A n \in LogIdx :
       log[n].op = "eval" => ~Gated(log[n].name)
  /\ \A n \in 1..Len(meta._cleaned_properties) :
       LET p == meta._cleaned_properties[n][1]
       IN  (Gated(p) /\ pc \in {"pop", "finish", "returned", "raised"}
            /\ raised.exc \in {"", "ValidationError"})
           => \E k \in LogIdx : log[k].op = "skip" /\ log[k].name = p
  /\ (Rejected /\ \A n \in FailedIdx : log[n].op = "clean") =>
       /\ raised.error.items = <<>>
       /\ DictKeys(raised.error.nested) = {log[n].name : n \in FailedIdx}

\* the second declared dependency of a property attached to a field failed,
\* the field itself did not, and the construction was rejected
C4_Witness ==
  /\ Rejected
  /\ \E n \in LogIdx :
       /\ log[n].op = "skip"
       /\ Prop(log[n].name).key # <<>>
       /\ Len(Prop(log[n].name).depends_on) > 1
       /\ ~DependencyFailed(Prop(log[n].name).depends_on[1])
       /\ DependencyFailed(Prop(log[n].name).depends_on[2])
       /\ ~DictHas(raised.error.nested, Prop(log[n].name).key[1])

\* the names a property may read: its dependencies and, through the
\* properties among them, theirs
RECURSIVE Reachable(_)
Reachable(p) ==
  UNION {{Prop(p).depends_on[n]} \cup
         (IF IsCleanedProperty(meta, Prop(p).depends_on[n])
          THEN Reachable(Prop(p).depends_on[n]) ELSE {})
         : n \in 1..Len(Prop(p).depends_on)}

\* the body of p, invoked, reads a name outside its dependency set before
\* it reads any constraint
ReadsUndeclared(p) ==
  \E n \in 1..Len(Prop(p).reads) :
    /\ Prop(p).reads[n] \notin Reachable(p)
    /\ \A k \in 1..n : ~IsConstraint(meta, Prop(p).reads[k])

\* C5: when the body of an evaluated property or constraint reads a field
\* or property that is not in its declared (transitive) dependency set, the
\* construction call ends there with an AssertionError that carries no
\* error tree, also when field errors were recorded before.
C5_UndeclaredAccessIsFatal ==
  \A n \in LogIdx :
    (log[n].op = "eval" /\ ReadsUndeclared(log[n].name)) =>
      /\ n = Len(log)
      /\ pc = "raised"
      /\ raised = [exc |-> "AssertionError", error |-> NoError]

\* a property read an undeclared field after a field error was recorded
C5_Witness ==
  /\ pc = "raised"
  /\ raised.exc = "AssertionError"
  /\ errors # <<>>
  /\ ReadsUndeclared(log[Len(log)].name)

\* the field a property was attached to: the first of its dependencies
AttachedTo(p) == Prop(p).depends_on[1]
IsAttached(p) == Prop(p).key # <<>>

\* the step that evaluates a property which raises a ValidationError
RaisesIn(p, err) ==
  /\ pc = "props"
  /\ Len(log') = Len(log) + 1
  /\ log'[Len(log')].op = "eval"
  /\ log'[Len(log')].exc = "ValidationError"
  /\ log'[Len(log')].name = p
  /\ log'[Len(log')].error = err

C7_OneItemPerMessage ==
  \A n \in LogIdx :
    (/\ Rejected
     /\ FailedIdx = {n}
     /\ log[n].op = "eval"
     /\ ~IsAttached(log[n].name)
     /\ Prop(log[n].name).message.t = "str"
     /\ Prop(log[n].name).code.t = "none")
    => /\ raised.error.items = <<Item(Prop(log[n].name).message.s, NoCode)>>
       /\ raised.error.nested = <<>>

\* C8: the stored data and to_dict() of a constructed instance hold no
\* constraint name, and reading a constraint of an instance raises
\* ConstraintAccess.
C8_ConstraintsNotStored ==
  /\ Constructed =>
       \A n \in 1..Len(meta._cleaned_properties) :
         meta._cleaned_properties[n][2].constraint =>
           /\ ~DictHas(_data, meta._cleaned_properties[n][1])
           /\ ~DictHas(to_dict(_data), meta._cleaned_properties[n][1])
  /\ (Constructed /\ attr # NoCall) =>
       ((DictHas(meta._cleaned_properties, attr[1].key)
         /\ Prop(attr[1].key).constraint)
        <=> attr[1].exc = "ConstraintAccess")

\* a constraint was evaluated, the instance was constructed and the
\* constraint was read
C8_Witness ==
  /\ Constructed
  /\ \E n \in LogIdx : log[n].op = "eval" /\ Prop(log[n].name).constraint
  /\ attr # NoCall
  /\ attr[1].exc = "ConstraintAccess"

\* the cleanings of Undefined: the direct call and those of the
\* construction call, as <<field, result>>
CleanedUndefined ==
  (IF fres # NoCall /\ fres[1].value = _UNDEFINED
   THEN {<<fres[1].field, fres[1].r>>} ELSE {})
  \cup {<<DictGet(meta._fields, log[n].name),
          [exc |-> log[n].exc, value |-> IF log[n].exc = ""
                                         THEN DictGet(data, log[n].name)
                                         ELSE _UNDEFINED,
           error |-> log[n].error, calls |-> log[n].calls]>>
        : n \in {k \in LogIdx : log[k].op = "clean" /\ log[k].raw = _UNDEFINED}}

\* C9: for a field without default, an OptionalField included, cleaning
\* Undefined fails with one item of code `required`, and neither convert
\* nor validate is called.
C9_RequiredWithoutDefault ==
  \A c \in CleanedUndefined :
    c[1]._default.kind = "undefined" =>
      /\ c[2].exc = "ValidationError"
      /\ Len(c[2].error.items) = 1
      /\ c[2].error.items[1].code = "required"
      /\ c[2].error.nested = <<>>
      /\ c[2].calls = <<>>

\* Undefined was cleaned by an OptionalField without default
C9_Witness ==
  /\ fres # NoCall
  /\ fres[1].value = _UNDEFINED
  /\ fres[1].field.cls = "OptionalField"
  /\ fres[1].field._default.kind = "undefined"
  /\ fres[1].r.exc = "ValidationError"

\* C10: for a field with a default, cleaning Undefined calls neither convert
\* nor validate: a static default is returned as it is, a producer is
\* called once and its result returned, also when the value violates the
\* constraints of the field.
C10_DefaultNotValidated ==
  \A c \in CleanedUndefined :
    c[1]._default.kind # "undefined" =>
      /\ c[2].exc = ""
      /\ c[2].value = c[1]._default.v
      /\ c[2].calls = IF c[1]._default.kind = "callable"
                      THEN <<<<"_default", c[1].cls, _UNDEFINED>>>>
                      ELSE <<>>

\* a producer default and a static default that violate the constraints of
\* their fields were returned
C10_Witness ==
  /\ fres # NoCall
  /\ fres[1].value = _UNDEFINED
  /\ fres[1].field._default.kind \in {"callable", "value"}
  /\ fres[1].field._default.v # None
  /\ validate(fres[1].field, fres[1].field._default.v).exc = "ValidationError"
  /\ fres[1].r.exc = ""
  /\ fres[1].r.value = fres[1].field._default.v

\* ------------------------------------------------------------------------
\* Field.clean of a present value
\* ------------------------------------------------------------------------
\* every cleaning of a present value, by a direct call or by __init__:
\* <<field, raw value, [exc, error, calls]>>
CleanedPresent ==
  (IF fres # NoCall /\ fres[1].value # _UNDEFINED
   THEN {<<fres[1].field, fres[1].value,
           [exc |-> fres[1].r.exc, error |-> fres[1].r.error,
            calls |-> fres[1].r.calls]>>}
   ELSE {})
  \cup {<<DictGet(meta._fields, log[n].name), log[n].raw,
          [exc |-> log[n].exc, error |-> log[n].error, calls |-> log[n].calls]>>
        : n \in {k \in LogIdx : log[k].op = "clean" /\ log[k].raw # _UNDEFINED}}

\* the calls of validate among calls
ValidateCalls(calls) == SelectSeq(calls, LAMBDA c : c[1] = "validate")

\* the cleanings of fields in log that ended with an exception other than
\* ValidationError
FatalIdx ==
  {n \in LogIdx : log[n].op = "clean" /\ log[n].exc \notin {"", "ValidationError"}}

\* C11: when convert raises ValueError or TypeError, clean fails with one
\* item of code `conversion` and validate is not called; any other exception
\* of convert, and any exception of validate that is not a ValidationError,
\* leaves clean as it is, and in a construction it leaves __init__ at once
\* and is not recorded in errors.
C11_ConversionOrPropagate ==
  /\ \A c \in CleanedPresent :
       LET cv == convert(c[1], c[2])
       IN  /\ cv.exc \in {"ValueError", "TypeError"} =>
                /\ c[3].exc = "ValidationError"
                /\ Len(c[3].error.items) = 1
                /\ c[3].error.items[1].code = "conversion"
                /\ c[3].error.nested = <<>>
                /\ ValidateCalls(c[3].calls) = <<>>
           /\ cv.exc \notin {"", "ValueError", "TypeError"} =>
                /\ c[3].exc = cv.exc
                /\ c[3].error = NoError
                /\ ValidateCalls(c[3].calls) = <<>>
           /\ cv.exc = "" /\ validate(c[1], cv.v).exc \notin {"", "ValidationError"} =>
                /\ c[3].exc = validate(c[1], cv.v).exc
                /\ c[3].error = NoError
  /\ \A n \in FatalIdx :
       /\ n = Len(log)
       /\ pc = "raised"
       /\ raised = [exc |-> log[n].exc, error |-> NoError]
       /\ ~DictHas(errors, log[n].name)
       /\ ~DictHas(data, log[n].name)

\* a construction saw a conversion failure of one field and then the
\* TypeError of the validate of another, which ended it
C11_Witness ==
  /\ pc = "raised"
  /\ raised.exc = "TypeError"
  /\ \E n \in FailedIdx :
       /\ log[n].op = "clean"
       /\ log[n].error.items[1].code = "conversion"
  /\ log[Len(log)].op = "clean"
  /\ ValidateCalls(log[Len(log)].calls) # <<>>

\* the calls among calls that reached a field other than an OptionalField
WrappedCalls(calls) == SelectSeq(calls, LAMBDA c : c[2] # "OptionalField")

\* C12: an OptionalField cleans None to None whatever field it wraps, and
\* calls neither convert nor validate of the wrapped field.
C12_OptionalCleansNone ==
  /\ \A c \in CleanedPresent :
       c[1].cls = "OptionalField" /\ c[2] = None =>
         /\ c[3].exc = ""
         /\ WrappedCalls(c[3].calls) = <<>>
  /\ fres # NoCall /\ fres[1].field.cls = "OptionalField" /\ fres[1].value = None
       => fres[1].r.value = None
  /\ \A n \in LogIdx :
       /\ log[n].op = "clean"
       /\ log[n].raw = None
       /\ DictGet(meta._fields, log[n].name).cls = "OptionalField"
       => DictHas(data, log[n].name) /\ DictGet(data, log[n].name) = None

\* None was cleaned by an OptionalField whose wrapped field has bounds and
\* a set of allowed values
C12_Witness ==
  /\ fres # NoCall
  /\ fres[1].value = None
  /\ fres[1].field.cls = "OptionalField"
  /\ fres[1].field.field[1].gt # None
  /\ fres[1].field.field[1].one_of # <<>>
  /\ fres[1].r.exc = ""
  /\ fres[1].r.value = None

\* the cleanings of Undefined by an OptionalField
OptionalUndefined == {c \in CleanedUndefined : c[1].cls = "OptionalField"}

\* C13 as stated: an OptionalField cleans Undefined to None, without the
\* required check.
C13_UndefinedIsNone ==
  \A c \in OptionalUndefined : c[2].exc = "" /\ c[2].value = None

\* C13: an OptionalField cleans Undefined as every field does: without a
\* default it fails with code `required`, with a default it yields the
\* default, which is None only when None is the default.
C13_OptionalUndefined ==
  \A c \in OptionalUndefined :
    /\ ~has_default(c[1]) =>
         /\ c[2].exc = "ValidationError"
         /\ to_flat_codes(c[2].error) = <<"required">>
    /\ has_default(c[1]) =>
         /\ c[2].exc = ""
         /\ c[2].value = c[1]._default.v
    /\ (c[2].exc = "" /\ c[2].value = None) <=> c[1]._default = StaticDefault(None)

\* a construction cleaned Undefined by an OptionalField without default and
\* recorded the failure under the name of the field
C13_Witness ==
  \E n \in FailedIdx :
    /\ log[n].op = "clean"
    /\ log[n].raw = _UNDEFINED
    /\ DictGet(meta._fields, log[n].name).cls = "OptionalField"
    /\ to_flat_codes(log[n].error) = <<"required">>
    /\ DictHas(errors, log[n].name)

\* ------------------------------------------------------------------------
\* TaggedUnion
\* ------------------------------------------------------------------------
\* the construction call, step by step, ends as __init__ taken as one call
InitAgrees ==
  /\ pc = "returned" => __init__(meta, kwargs) = [exc |-> "", error |-> NoError, _data |-> _data]
  /\ pc = "raised" =>
       __init__(meta, kwargs) = [exc |-> raised.exc, error |-> raised.error, _data |-> <<>>]

\* the union that was called and the call
Dispatched == pc = "dispatched"
TheUnion == union[1].u
TheCall == ures[1]
\* the discriminator of the call, Absent when kwargs has none
Discriminator == kwargs_get(TheCall.kwargs, TheUnion.tag_field_name, Absent)
\* the tags declared by the Tag field of a member
TagsOf(cl) == SeqToSet(DictGet(cl._meta._fields, TheUnion.tag_field_name).tags)
\* the members of the union that declare the tag
MembersWith(tag) ==
  {cl \in SeqToSet(TheUnion.members) : tag \in TagsOf(cl)}
\* kw without the keys that are no fields of the record type
OwnKeys(cl, kw) == [k \in DOMAIN kw \cap DictKeys(cl._meta._fields) |-> kw[k]]

\* C14: a call of a union with a tag that one of its members declares calls
\* the constructor of that member, once and with the same kwargs; the
\* result (instance data or error tree) is the result of that constructor
\* on these kwargs, and the same as without the keys that are none of the
\* member's fields.
C14_DispatchDelegates ==
  Dispatched =>
    \A cl \in MembersWith(Discriminator) :
      /\ TheCall.r.called = <<<<cl.__name__, TheCall.kwargs>>>>
      /\ TheCall.r.r = __init__(cl._meta, TheCall.kwargs)
      /\ TheCall.r.r = __init__(cl._meta, OwnKeys(cl, TheCall.kwargs))

\* a union of A and B was called with the tag of B and a key `two` that B
\* does not declare, and returned an instance of B
C14_Witness ==
  /\ Dispatched
  /\ TheUnion.members = <<ClassA, ClassB>>
  /\ Discriminator = Str(1)
  /\ "two" \in DOMAIN TheCall.kwargs
  /\ TheCall.r.called[1][1] = "B"
  /\ TheCall.r.r.exc = ""
  /\ DictKeySeq(TheCall.r.r._data) = <<"tag", "one">>

\* the tag the call is dispatched on
EffectiveTag ==
  IF Discriminator \in {Absent, None} THEN TheUnion.fallback ELSE Discriminator

\* C15: a call of a union on a tag that none of its members declares ends
\* with one TypeError ('The type is indeterminable'), which carries no
\* error tree, and calls the constructor of no member.
C15_UnmappedTagFailsDispatch ==
  Dispatched /\ MembersWith(EffectiveTag) = {} =>
    /\ TheCall.r.r.exc = "TypeError"
    /\ TheCall.r.r.error = NoError
    /\ TheCall.r.r._data = <<>>
    /\ TheCall.r.called = <<>>

\* a union with fallback 'a' was called with the tag 'f' and a value of
\* `one` that A rejects, and raised TypeError
C15_Witness ==
  /\ Dispatched
  /\ TheUnion.fallback = Str(0)
  /\ Discriminator = Str(5)
  /\ "one" \in DOMAIN TheCall.kwargs
  /\ TheCall.kwargs["one"] = PyInt(MaxInt)
  /\ TheCall.r.r.exc = "TypeError"
  /\ TheCall.r.called = <<>>

\* C16: the fallback is put in place of the discriminator exactly when
\* kwargs has no discriminator or has None: the member that declares the
\* fallback is then constructed with the fallback under the discriminator
\* name, and a constructed instance holds the fallback in that field; a
\* discriminator that is present and not None (the empty str, a str that is
\* no tag, an int) reaches the member unchanged, or fails the dispatch when
\* no member declares it.
C16_FallbackIffAbsentOrNone ==
  Dispatched =>
    LET name == TheUnion.tag_field_name
        substituted == KwSet(TheCall.kwargs, name, TheUnion.fallback)
    IN  /\ Discriminator \in {Absent, None} =>
             \A cl \in MembersWith(TheUnion.fallback) :
               /\ TheCall.r.called = <<<<cl.__name__, substituted>>>>
               /\ TheCall.r.r = __init__(cl._meta, substituted)
               /\ TheCall.r.r.exc = "" =>
                    DictGet(TheCall.r.r._data, name) = TheUnion.fallback
        /\ Discriminator \notin {Absent, None} =>
             /\ \A n \in 1..Len(TheCall.r.called) :
                  TheCall.r.called[n][2] = TheCall.kwargs
             /\ MembersWith(Discriminator) = {} =>
                  TheCall.r.r.exc = "TypeError" /\ TheCall.r.called = <<>>

\* a union with fallback 'a' was called without a tag and with None as the
\* tag, and returned an instance of A that holds the tag 'a'
C16_Witness ==
  /\ Dispatched
  /\ TheUnion.fallback = Str(0)
  /\ Discriminator = None
  /\ TheCall.r.called # <<>>
  /\ TheCall.r.called[1][1] = "A"
  /\ TheCall.r.r.exc = ""
  /\ DictGet(TheCall.r.r._data, "tag") = Str(0)

\* the tags a record type declares under the name: the tags of its Tag
\* field, <<>> when it has no Tag field of this name
DeclaredTags(cl, name) ==
  IF ~DictHas(cl._meta._fields, name) THEN <<>>
  ELSE IF DictGet(cl._meta._fields, name).cls # "TagField" THEN <<>>
  ELSE DictGet(cl._meta._fields, name).tags
\* the position of the first occurrence of a record type in a list
FirstAt(cl, list) == SetMin({n \in 1..Len(list) : list[n] = cl})

\* C17: TaggedUnion(..) is rejected exactly when a member has no Tag field
\* of the discriminator name, when two different members (a type and its
\* subclass too) declare the same tag, or when a non-empty fallback is a tag
\* of no member; a member given twice is no reason to reject.  The members
\* of a constructed union are the given types without repetition, in the
\* order of their first occurrence, and its mapping maps every tag of
\* every member to that member, and nothing else.
C17_MemberSetValidated ==
  union # NoCall =>
    LET u == union[1].u
        cleaneds == union[1].cleaneds
        name == u.tag_field_name
        given == SeqToSet(cleaneds)
        lacks == \E cl \in given : DeclaredTags(cl, name) = <<>>
        shared == \E c1, c2 \in given :
                    /\ c1 # c2
                    /\ SeqToSet(DeclaredTags(c1, name))
                         \cap SeqToSet(DeclaredTags(c2, name)) # {}
        unmapped == /\ u.fallback # EmptyStr
                    /\ \A cl \in given : u.fallback \notin SeqToSet(DeclaredTags(cl, name))
    IN  /\ u.exc = "AssertionError" <=> (lacks \/ shared \/ unmapped)
        /\ u.exc \in {"", "AssertionError"}
        /\ u.exc = "" =>
             /\ SeqToSet(u.members) = given
             /\ Len(u.members) = Cardinality(given)
             /\ \A i, j \in 1..Len(u.members) :
                  i < j => FirstAt(u.members[i], cleaneds) < FirstAt(u.members[j], cleaneds)
             /\ \A cl \in given : \A tag \in SeqToSet(DeclaredTags(cl, name)) :
                  DictHas(u.mapping, tag) /\ DictGet(u.mapping, tag) = cl
             /\ \A n \in 1..Len(u.mapping) :
                  u.mapping[n][1] \in SeqToSet(DeclaredTags(u.mapping[n][2], name))

\* TaggedUnion('tag', B, DE, B) was constructed with the members B and DE
C17_Witness ==
  /\ union # NoCall
  /\ union[1].cleaneds = <<ClassB, ClassDE, ClassB>>
  /\ union[1].u.exc = ""
  /\ union[1].u.members = <<ClassB, ClassDE>>
  /\ DictKeySeq(union[1].u.mapping) = <<Str(1), Str(3), Str(4)>>

\* ------------------------------------------------------------------------
\* CleanedBuilder
\* ------------------------------------------------------------------------
\* the keys of a list of dicts in the order of their first occurrence
RECURSIVE KeysInOrder(_, _)
KeysInOrder(dicts, acc) ==
  IF dicts = <<>> THEN acc
  ELSE KeysInOrder(Tail(dicts),
         acc \o SelectSeq(DictKeySeq(dicts[1]), LAMBDA k : k \notin SeqToSet(acc)))
\* the names of the fields and of the properties the bases declare, and
\* the names the class body declares
InheritedFields(bases) ==
  KeysInOrder([n \in 1..Len(bases) |-> bases[n]._meta._fields], <<>>)
InheritedProperties(bases) ==
  KeysInOrder([n \in 1..Len(bases) |-> bases[n]._meta._cleaned_properties], <<>>)
OwnFields(fields) == DictKeySeq(SelectSeq(fields, LAMBDA e : IsField(e[2])))
OwnProperties(fields) == DictKeySeq(SelectSeq(fields, LAMBDA e : IsProperty(e[2])))

\* C18: a class statement that declares a field or a property under a name
\* its bases declare is rejected; in a record type that is defined no name
\* is both a field and a property, with several bases too, and both
\* registries hold the inherited names first and the own names after them.
C18_NamesUnique ==
  defined # NoCall =>
    LET bases == defined[1].bases
        fields == defined[1].fields
        r == defined[1].r
        inherited == SeqToSet(InheritedFields(bases))
                       \cup SeqToSet(InheritedProperties(bases))
        own == SeqToSet(OwnFields(fields)) \cup SeqToSet(OwnProperties(fields))
    IN  /\ own \cap inherited # {} => r.exc = "AssertionError"
        /\ r.exc = "" =>
             /\ DictKeys(r.cl._meta._fields)
                  \cap DictKeys(r.cl._meta._cleaned_properties) = {}
             /\ DictKeySeq(r.cl._meta._fields)
                  = InheritedFields(bases) \o OwnFields(fields)
             /\ DictKeySeq(r.cl._meta._cleaned_properties)
                  = InheritedProperties(bases) \o OwnProperties(fields)

\* ------------------------------------------------------------------------
\* Operations on an instance
\* ------------------------------------------------------------------------
\* the stored data of the instance
StoredData == heap[inst[1]._data]
\* the names of the record types
RecordTypeNames == {cl.__name__ : cl \in InstanceClasses}

\* C19: an instance is equal to another instance of a record type exactly
\* when both stored data hold the same entries, whatever the order and the
\* record types; it is not equal to a value that is no instance of a
\* record type, a dict with the same entries included.
C19_EqualIffSameData ==
  eqres # NoCall =>
    LET other == eqres[1].other
    IN  IF other.__class__ \in RecordTypeNames
        THEN eqres[1].r <=> SeqToSet(StoredData) = SeqToSet(other._data)
        ELSE ~eqres[1].r

\* an instance of C was found equal to an instance of CR that stores the
\* same entries in the other order
C19_Witness ==
  /\ eqres # NoCall
  /\ inst[1].cl = ClassC
  /\ eqres[1].other.__class__ = "CR"
  /\ StoredData # eqres[1].other._data
  /\ eqres[1].r

\* the stored data the construction of the instance gave
InitialData == __init__(inst[1].cl._meta, inst[1].kwargs)._data
\* the declared names among the keys of a dict, in the order of the dict
DeclaredIn(d, registry) ==
  SelectSeq(DictKeySeq(d), LAMBDA k : k \in DictKeys(registry))

\* C20: every snapshot to_dict returns holds the stored data, the fields
\* in the order of their declaration (and the properties after them);
\* whatever is set in or popped from a snapshot, the stored data of the
\* instance, the values of its attributes and the snapshots taken later
\* are the same; the assignment to a field or property attribute raises
\* AttributeError and leaves the stored data as it is.
C20_SnapshotAndFrozen ==
  inst # NoCall /\ inst[1].exc = "" =>
    /\ StoredData = InitialData
    /\ \A name \in DictKeys(inst[1].cl._meta._fields)
                    \cup DictKeys(inst[1].cl._meta._cleaned_properties) :
         /\ __get__(inst[1].cl._meta, StoredData, name).exc = ""
         /\ __get__(inst[1].cl._meta, StoredData, name).value
              = DictGet(InitialData, name)
    /\ \A n \in 1..Len(snaps) :
         /\ snaps[n].taken = InitialData
         /\ DeclaredIn(snaps[n].taken, inst[1].cl._meta._fields)
              = DictKeySeq(inst[1].cl._meta._fields)
         /\ snaps[n].taken
              = [k \in 1..Len(inst[1].cl._meta._fields) |->
                   <<inst[1].cl._meta._fields[k][1],
                     DictGet(InitialData, inst[1].cl._meta._fields[k][1])>>]
                \o SelectSeq(InitialData,
                      LAMBDA e : e[1] \in DictKeys(inst[1].cl._meta._cleaned_properties))
    /\ setres # NoCall => setres[1].exc = "AttributeError"

\* an instance with a property: a first snapshot was changed, a second one
\* was taken after that, and an attribute was assigned to
C20_Witness ==
  /\ inst # NoCall
  /\ inst[1].cl = ClassC1
  /\ Len(snaps) = 2
  /\ heap[snaps[1].ref] # snaps[1].taken
  /\ snaps[2].after > 0
  /\ setres # NoCall

\* ------------------------------------------------------------------------
\* Field.clean: the order of convert and validate
\* ------------------------------------------------------------------------
\* every cleaning of a present value with the value it returned, by a
\* direct call or by __init__: [field, raw, exc, value, calls]
PresentCleanings ==
  (IF fres # NoCall /\ fres[1].value # _UNDEFINED
   THEN {[field |-> fres[1].field, raw |-> fres[1].value, exc |-> fres[1].r.exc,
          value |-> fres[1].r.value, calls |-> fres[1].r.calls]}
   ELSE {})
  \cup {[field |-> DictGet(meta._fields, log[n].name), raw |-> log[n].raw,
         exc |-> log[n].exc, value |-> DictGet(data, log[n].name),
         calls |-> log[n].calls]
        : n \in {k \in LogIdx : /\ log[k].op = "clean"
                                /\ log[k].raw # _UNDEFINED
                                /\ log[k].exc = ""
                                /\ DictHas(data, log[k].name)}}

\* the calls made on the field itself, without those an OptionalField made
\* on the field it wraps
OwnCalls(field, calls) == SelectSeq(calls, LAMBDA c : c[2] = field.cls)

\* C26: clean of a present value (None included) calls convert once with
\* the raw value, first; when convert returns, validate is called once with
\* the converted value, after convert, and the value clean returns is the
\* converted value; the default is not consulted.
C26_ConvertThenValidate ==
  \A c \in PresentCleanings :
    LET own == OwnCalls(c.field, c.calls)
        cv == convert(c.field, c.raw)
    IN  /\ own # <<>>
        /\ own[1] = <<"convert", c.field.cls, c.raw>>
        /\ \A n \in 2..Len(own) : own[n][1] # "convert"
        /\ \A n \in 1..Len(c.calls) : c.calls[n][1] # "_default"
        /\ cv.exc # "" => Len(own) = 1
        /\ cv.exc = "" =>
             /\ Len(own) = 2
             /\ own[2] = <<"validate", c.field.cls, cv.v>>
             /\ c.exc = "" => c.value = cv.v

\* a str of digits was cleaned by a field with a default: it was converted
\* to an int, the int was validated and returned
C26_Witness ==
  /\ fres # NoCall
  /\ fres[1].value = NumStr(1)
  /\ fres[1].field._default.kind = "value"
  /\ fres[1].field.cls = "IntField"
  /\ fres[1].r.exc = ""
  /\ fres[1].r.value = PyInt(1)
  /\ fres[1].r.calls = <<<<"convert", "IntField", NumStr(1)>>,
                         <<"validate", "IntField", PyInt(1)>>>>

\* ------------------------------------------------------------------------
\* ValidationError.to_flat_codes
\* ------------------------------------------------------------------------
\* e and every error nested in it, at any depth
RECURSIVE SubErrors(_)
SubErrors(e) == {e} \cup UNION {SubErrors(e.nested[n][2]) : n \in 1..Len(e.nested)}

\* the errors of the state: the one raised by the construction, those of
\* its field cleanings and property evaluations, and those of the direct
\* calls, with the errors nested in them
ErrorsSeen ==
  UNION {SubErrors(e) :
           e \in {raised.error} \cup {log[n].error : n \in LogIdx}
                 \cup {fres[n].r.error : n \in 1..Len(fres)}
                 \cup {ures[n].r.r.error : n \in 1..Len(ures)}}

\* the codes of the items of one level that have a code
LevelCodes(e) ==
  LET its == SelectSeq(e.items, LAMBDA i : i.code # NoCode)
  IN  [n \in 1..Len(its) |-> its[n].code]

\* some item at some level of e / some item with a code
HasItem(e) == \E s \in SubErrors(e) : s.items # <<>>
HasCode(e) == \E s \in SubErrors(e) : \E n \in 1..Len(s.items) : s.items[n].code # NoCode

\* the number of items of e at all levels
RECURSIVE ItemCount(_)
ItemCount(e) ==
  Len(e.items)
  + Len(Concat([n \in 1..Len(e.nested) |-> [k \in 1..ItemCount(e.nested[n][2]) |-> 0]]))

\* C30 as stated: the flattened sequence has the code of every item of
\* every level, and it is empty exactly when no level holds an item.
C30_EmptyIffNoItem ==
  \A e \in ErrorsSeen :
    /\ Len(to_flat_codes(e)) = ItemCount(e)
    /\ to_flat_codes(e) = <<>> <=> ~HasItem(e)

\* C30: the flattened sequence is the codes of the items of the level that
\* have a code, in order, followed by the flattened sequences of the nested
\* entries in insertion order; it is empty exactly when no item of any level
\* has a code.
C30_FlatCodes ==
  \A e \in ErrorsSeen :
    /\ to_flat_codes(e) =
         LevelCodes(e)
           \o Concat([n \in 1..Len(e.nested) |-> to_flat_codes(e.nested[n][2])])
    /\ to_flat_codes(e) = <<>> <=> ~HasCode(e)

\* a construction raised an error with an item of its own that has a code
\* and a nested entry with another code, flattened in that order
C30_Witness ==
  /\ pc = "raised"
  /\ raised.error.items # <<>>
  /\ raised.error.nested # <<>>
  /\ to_flat_codes(raised.error) = <<"code", "required">>

\* ------------------------------------------------------------------------
\* CleanedProperty.depends_on_propnames
\* ------------------------------------------------------------------------
\* the names reached from the names in S by descending through the
\* dependencies of those that are properties
RECURSIVE Descend(_, _)
Descend(m, S) ==
  LET T == S \cup UNION {SeqToSet(DictGet(m._cleaned_properties, d).depends_on)
                         : d \in S \cap DictKeys(m._cleaned_properties)}
  IN  IF T = S THEN S ELSE Descend(m, T)

\* the names the property declared as p depends on, directly or through
\* other properties
DependencyNames(p) ==
  Descend(meta, SeqToSet(DictGet(meta._cleaned_properties, p).depends_on))

\* a memoized set is never replaced, and what a call of
\* depends_on_propnames returns is what a fresh computation gives
MemoizedOnce ==
  /\ [](\A p \in DictKeys(meta._cleaned_properties) :
          depends_on_propnames(meta, DictGet(meta._cleaned_properties, p),
                               _depends_on_cache[p]).result
            = SeqToSet(_iterate_depends_on(meta, DictGet(meta._cleaned_properties, p))))
  /\ [][\A p \in DictKeys(meta._cleaned_properties) :
          _depends_on_cache[p] # <<>> => _depends_on_cache'[p] = _depends_on_cache[p]]_vars

\* C27 as stated: the memoized set holds the names of the fields reached,
\* and only those.
C27_FieldNamesReached ==
  /\ [](\A p \in DictKeys(meta._cleaned_properties) :
          _depends_on_cache[p] # <<>> =>
            _depends_on_cache[p][1] = DependencyNames(p) \cap DictKeys(meta._fields))
  /\ MemoizedOnce

\* C27: the memoized set holds the names of all the dependencies of the
\* property, fields and properties, its own and those reached through its
\* property dependencies; it is computed once and every later call returns
\* what a fresh computation gives.
C27_DependencySet ==
  /\ [](\A p \in DictKeys(meta._cleaned_properties) :
          _depends_on_cache[p] # <<>> => _depends_on_cache[p][1] = DependencyNames(p))
  /\ MemoizedOnce

\* a later construction is about to evaluate a property of a property whose
\* set was memoized by an earlier one: it holds the field and the property
C27_Witness ==
  /\ pc = "props"
  /\ meta._cleaned_properties[idx][1] = "q"
  /\ _depends_on_cache["q"] = <<{"a", "p"}>>
  /\ DictHas(meta._fields, "a")
  /\ DictHas(meta._cleaned_properties, "p")

\* ------------------------------------------------------------------------
\* What a construction call leaves of the declarations
\* ------------------------------------------------------------------------
\* C25 as stated: no step of a construction call (nor any other step) changes
\* the registries, the fields, or the dependency list and the dependency-set cache of a
\* property.
C25_DeclarationsUnchanged ==
  [][meta' = meta /\ _depends_on_cache' = _depends_on_cache]_vars

\* C25: no step of a construction call changes the registries, the fields
\* and the dependency lists of the properties; the only change is to the
\* dependency-set cache of the property the step evaluates or skips, which
\* is filled when it was empty and is then kept, in a call that fails as in
\* one that succeeds.
C25_OnlyTheCacheIsFilled ==
  [][/\ meta' = meta
     /\ \A p \in DictKeys(meta._cleaned_properties) :
          IF pc = "props" /\ meta._cleaned_properties[idx][1] = p
          THEN /\ _depends_on_cache'[p] # <<>>
               /\ _depends_on_cache[p] # <<>> =>
                    _depends_on_cache'[p] = _depends_on_cache[p]
          ELSE _depends_on_cache'[p] = _depends_on_cache[p]]_vars

\* a construction call failed after it filled the cache of a property
C25_Witness ==
  /\ pc = "raised"
  /\ raised.exc = "ValidationError"
  /\ \E n \in LogIdx : log[n].op \in {"eval", "skip"}
  /\ \A p \in DictKeys(meta._cleaned_properties) : _depends_on_cache[p] # <<>>
  /\ meta._cleaned_properties # <<>>

\* ------------------------------------------------------------------------
\* The raised error and the failures of the call
\* ------------------------------------------------------------------------
\* the items `its` are found, in order and contiguous, among `all`
ItemsAmong(its, all) ==
  \E k \in 0..(Len(all) - Len(its)) : SubSeq(all, k + 1, k + Len(its)) = its

\* C28: when a construction call raises a ValidationError, every failure of
\* the call is in it: the failure of a field under the name of the field,
\* the failure of an attached property or constraint under the name of the
\* field it is attached to, and the items of the failure of a free-standing
\* one among the top-level items.
C28_EveryFailurePresent ==
  Rejected =>
    \A n \in FailedIdx :
      IF FiledUnder(log[n]) # ""
      THEN /\ DictHas(raised.error.nested, FiledUnder(log[n]))
           /\ DictGet(raised.error.nested, FiledUnder(log[n])) = log[n].error
      ELSE ItemsAmong(log[n].error.items, raised.error.items)

\* ------------------------------------------------------------------------
\* The stored values of a valid instance
\* ------------------------------------------------------------------------
\* every dependency of every property of m is a field, or a property
\* declared before it
DeclaredEarlier(m) ==
  \A n \in 1..Len(m._cleaned_properties) :
    \A d \in SeqToSet(m._cleaned_properties[n][2].depends_on) :
      \/ DictHas(m._fields, d)
      \/ \E k \in 1..(n - 1) : m._cleaned_properties[k][1] = d

\* the declared names that are not constraints
ValueNames(m) ==
  DictKeys(m._fields)
    \cup {p \in DictKeys(m._cleaned_properties) : ~IsConstraint(m, p)}

\* C29: when every dependency of every property is a field or a property
\* declared earlier, a construction that succeeds skipped no property, the
\* instance stores a value for every field and every property that is not a
\* constraint, and reading any of them gives the stored value.
C29_NothingSkipped ==
  /\ DeclaredEarlier(meta) /\ Constructed =>
       /\ \A n \in LogIdx : log[n].op # "skip"
       /\ \A name \in ValueNames(meta) :
            /\ DictHas(_data, name)
            /\ __get__(meta, _data, name).exc = ""
       /\ attr # NoCall => attr[1].exc # "DirtyFieldAccess"
  /\ \A n \in 1..Len(inst) :
       inst[n].exc = "" /\ DeclaredEarlier(inst[n].cl._meta) =>
         \A name \in ValueNames(inst[n].cl._meta) :
           DictHas(heap[inst[n]._data], name)

\* an instance of the type with the property q of the property p and the
\* constraint k was constructed, q being declared last, and q was read
C29_Witness ==
  /\ Constructed
  /\ DeclaredEarlier(meta)
  /\ Len(meta._cleaned_properties) = 3
  /\ meta._cleaned_properties[3][1] = "q"
  /\ DictHas(_data, "q")
  /\ attr # NoCall
  /\ attr[1].key = "q"
  /\ attr[1].exc = ""

\* ------------------------------------------------------------------------
\* NestedField
\* ------------------------------------------------------------------------
\* the cleanings by a NestedField of a record type / of a union
NestedOfType == {n \in 1..Len(cres) : cres[n].cleaned.kind = "type"}
NestedOfUnion ==
  {n \in 1..Len(cres) : cres[n].cleaned.kind \in {"union", "callable"}}

\* C21: NestedField(R).clean(r), r being an instance of R, returns an
\* instance of R that is equal to r.
C21_RoundTrip ==
  \A n \in NestedOfType :
    LET value == cres[n].value
        c == cres[n].c
    IN  IsCleaned(value) /\ value.__class__ = cres[n].cleaned.cl.__name__ =>
          /\ c.r.exc = ""
          /\ c.called = <<<<value.__class__,
                            [k \in DictKeys(value._data) |-> DictGet(value._data, k)]>>>>
          /\ __eq__(c.r._data, value)

\* the union a NestedField wraps, given as it is or by a callable
WrappedUnion(cleaned) ==
  IF cleaned.kind = "callable" THEN cleaned.returns.u ELSE cleaned.u

\* C22: a NestedField that wraps a TaggedUnion cleans a raw mapping by its
\* tag: for a mapped tag the outcome is that of constructing the member
\* mapped to the tag from the mapping (an instance of it, or its nested field
\* errors); for an unmapped tag it is a ValidationError with exactly one
\* item and no nested entry.
C22_DispatchOnTag ==
  \A n \in NestedOfUnion :
    LET u == WrappedUnion(cres[n].cleaned)
        t == ResolveTag(u, cres[n].value.value)
        cl == Lookup(u, t[1])
        c == cres[n].c
    IN  IF cl # <<>>
        THEN /\ c.called = <<<<cl[1].__name__, t[2]>>>>
             /\ c.r = __init__(cl[1]._meta, t[2])
        ELSE /\ c.r.exc = "ValidationError"
             /\ Len(c.r.error.items) = 1
             /\ c.r.error.nested = <<>>

\* ------------------------------------------------------------------------
\* DictField
\* ------------------------------------------------------------------------
\* the cleanings of a dict by a DictField that end with a dict or with a
\* ValidationError
DictCleanings ==
  {n \in 1..Len(cres) : /\ cres[n].cleaned.kind = "dict"
                        /\ cres[n].c.r.exc \in {"", "ValidationError"}}

\* the entry <<k, v>> fails at its key, at its value
KeyFails(self, entry) == clean(self.key, entry[1]).exc = "ValidationError"
ValueFails(self, entry) == clean(self.value, entry[2]).exc = "ValidationError"

\* C23: in the error of a DictField the nested map holds `k:key` exactly for
\* the entries (k, v) whose key fails the key field; an error under a plain
\* key is the failure of the value v of an entry with that key against the
\* value field (an invalid key with a valid value gives `k:key` only); the
\* error has no item of its own; and the cleaning returns a dict exactly
\* when no entry fails.
C23_ErrorKeys ==
  \A n \in DictCleanings :
    LET self == cres[n].cleaned
        entries == cres[n].value.value
        r == cres[n].c.r
        nested == r.error.nested
        KeyNames == {Format(entries[i][1]) \o ":key" : i \in 1..Len(entries)}
    IN  /\ \A i \in 1..Len(entries) :
             DictHas(nested, Format(entries[i][1]) \o ":key")
               <=> KeyFails(self, entries[i])
        /\ \A name \in DictKeys(nested) \ KeyNames :
             \E i \in 1..Len(entries) :
               /\ Format(entries[i][1]) = name
               /\ ValueFails(self, entries[i])
               /\ DictGet(nested, name) = clean(self.value, entries[i][2]).error
        /\ r.error.items = <<>>
        /\ r.exc = "" <=> \A i \in 1..Len(entries) :
                            ~KeyFails(self, entries[i]) /\ ~ValueFails(self, entries[i])

\* ------------------------------------------------------------------------
\* Concurrent construction calls
\* ------------------------------------------------------------------------
\* the threads whose call ended
Done == {t \in DOMAIN threads : threads[t].pc = "done"}

\* C24: under every interleaving of two construction calls of one record
\* type, the first computation of the dependency sets included, each call
\* ends as it ends when it runs alone: with the same stored data or with the
\* same error tree.
C24_Independent ==
  \A t \in Done : threads[t].outcome = <<__init__(meta, threads[t].kwargs)>>

\* both calls assigned the dependency set of one property (both saw it
\* unset); one ended with an instance that holds a property value, the other
\* with validation errors
C24_Witness ==
  /\ Done = Threads
  /\ threads[1].filled \cap threads[2].filled # {}
  /\ threads[1].outcome[1].exc = ""
  /\ \E k \in DictKeys(meta._cleaned_properties) :
       DictHas(threads[1].outcome[1]._data, k)
  /\ threads[2].outcome[1].exc = "ValidationError"

====
